---- MODULE Spec2Model ----
(***************************************************************************)
(* A model of the core of termui: the XTerm input parser                   *)
(* (termui/_xterm_parser.py, termui/drivers/_parser.py), the DOM tree      *)
(* (termui/dom_tree.py, termui/_dom_tree.py, termui/dom/dom_node.py) and   *)
(* the differential renderer (termui/renderer.py), and the terminal I/O    *)
(* drivers with their threads (termui/drivers, termui/input).              *)
(*                                                                         *)
(* Each component has its own next-state relation over the shared          *)
(* variables: SpecParser, SpecDom, SpecList, SpecRender, SpecDriver,       *)
(* SpecEvents, SpecWrites and SpecUnix.                                    *)
(***************************************************************************)
EXTENDS Integers, Sequences, FiniteSets, TLC

VARIABLES
    \* ---- parser (Parser / XTermParser objects and their caller) ----
    input,      \* the characters the terminal will deliver, in order
    fed,        \* how many characters of input have been passed to feed()
    parser,     \* the fields of the Parser object and of its suspended generator
    out,        \* every event yielded by feed()/tick() so far, in order
    lastOp,     \* the last call made on the parser: "none", "feed", "tick", "eof"
    lastOut,    \* the events yielded by that last call
    timedOut,   \* TRUE once a tick() has thrown ParseTimeout into the generator
    now,        \* the value get_time() returns, in milliseconds
    \* ---- DOM tree (termui/dom_tree.py DOMTree over dom_node.DOMNode) ----
    tree,       \* DOMTree fields: root, nodes, nodes_by_id, nodes_by_name
    nodes,      \* per DOMNode object: parent, children, dirty
    domOp,      \* the last tree/node call and its outcome
    \* ---- list-backed tree (termui/_dom_tree.py DOMTree) ----
    ltree,      \* _nodes, _nodes_set, _nodes_by_id
    listOp,     \* the last list-tree call and its outcome
    \* ---- renderer (termui/renderer.py) ----
    rend,       \* Renderer/FrameBuffer fields and the render nodes
    termSize,   \* what get_terminal_size() returns now
    screen,     \* the cells the terminal shows (last character written per cell)
    rendOp,     \* the last renderer call, with the cell writes it made
    \* ---- I/O driver (termui/drivers/_driver.py) and its threads ----
    drv,        \* Driver fields, the threads it created and their queues
    tty,        \* the terminal: its attributes, which texts were written, the reads
    pc,         \* per thread: the statement of start()/stop() it is at
    evq,        \* events on their way from the reader to the input loop
    wr,         \* the writer thread, sys.stdout and the bytes on their way
    \* ---- Unix application mode (termui/input/_unix_driver.py) ----
    ux,         \* UnixDriver fields and the modes set on the terminal
    \* ---- keybinds (termui/drivers/_keybind_manager.py, termui/keybind.py) ----
    kbm,        \* KeybindManager fields and the actions it has called
    \* ---- the application (termui/app.py) ----
    app,        \* App fields, its three tasks and the steps of its shutdown
    \* ---- the input thread (termui/input/_unix_driver.py, termui/_driver.py) ----
    inp,        \* the thread, the buttons held down and the messages sent
    \* ---- hit testing (termui/dom_tree.py, termui/utils/geometry.py) ----
    hit,        \* the nodes' classes and regions, the last question and answer
    \* ---- geometry (termui/utils/geometry.py) ----
    geo,        \* one Region object, the last call made on it and its outcome
    \* ---- the driver thread on Windows (termui/drivers/_windows_driver.py) ----
    win         \* Driver._run: where it is, _running, _loop and what was read

vars == <<input, fed, parser, out, lastOp, lastOut, timedOut, now,
          tree, nodes, domOp, ltree, listOp, rend, termSize, screen, rendOp,
          drv, tty, pc, evq, wr, ux, kbm, app, inp, hit, geo, win>>

parserVars == <<input, fed, parser, out, lastOp, lastOut, timedOut, now>>
domVars == <<tree, nodes, domOp>>
listVars == <<ltree, listOp>>
rendVars == <<rend, termSize, screen, rendOp>>
coreVars == <<parserVars, domVars, listVars, rendVars>>
drvVars == <<drv, tty, pc>>
extVars == <<kbm, app, inp, hit, geo, win>>
ioVars == <<drvVars, evq, wr, ux, extVars>>

\* Optional values: None is the empty tuple and Some(v) the one-element tuple
None == <<>>

Some(v) == <<v>>

(***************************************************************************)
(* Generic helpers on sequences.                                           *)
(***************************************************************************)
Range(s) == {s[i] : i \in 1..Len(s)}

Last(s) == s[Len(s)]

Front(s) == SubSeq(s, 1, Len(s) - 1)

RECURSIVE SeqsUpTo(_, _)
SeqsUpTo(S, n) ==
    IF n = 0 THEN {<<>>}
    ELSE LET shorter == SeqsUpTo(S, n - 1)
         IN shorter \cup {Append(s, c) : s \in {t \in shorter : Len(t) = n - 1}, c \in S}

RECURSIVE Flatten(_)
Flatten(ss) == IF ss = <<>> THEN <<>> ELSE Head(ss) \o Flatten(Tail(ss))

(***************************************************************************)
(* Characters.  A character is a one-character string, except the escape   *)
(* character, written ESC.  Strings of the program are sequences of        *)
(* characters.                                                             *)
(***************************************************************************)
ESC == "ESC"

Digits == {"0", "1", "2", "3", "4", "5", "6", "7", "8", "9"}

DigitVal(c) ==
    CASE c = "0" -> 0 [] c = "1" -> 1 [] c = "2" -> 2 [] c = "3" -> 3
      [] c = "4" -> 4 [] c = "5" -> 5 [] c = "6" -> 6 [] c = "7" -> 7
      [] c = "8" -> 8 [] c = "9" -> 9

DigitChar(d) ==
    CASE d = 0 -> "0" [] d = 1 -> "1" [] d = 2 -> "2" [] d = 3 -> "3"
      [] d = 4 -> "4" [] d = 5 -> "5" [] d = 6 -> "6" [] d = 7 -> "7"
      [] d = 8 -> "8" [] d = 9 -> "9"

\* \d+
IsDigits(s) == Len(s) > 0 /\ \A i \in 1..Len(s) : s[i] \in Digits

\* -?\d+
IsSignedDigits(s) ==
    \/ IsDigits(s)
    \/ Len(s) > 1 /\ s[1] = "-" /\ IsDigits(Tail(s))

\* int() of a \d+ string
RECURSIVE ToInt(_)
ToInt(s) == IF s = <<>> THEN 0 ELSE ToInt(Front(s)) * 10 + DigitVal(Last(s))

\* int() of a -?\d+ string
SignedInt(s) == IF s[1] = "-" THEN 0 - ToInt(Tail(s)) ELSE ToInt(s)

\* str() of a natural number
RECURSIVE ToDigits(_)
ToDigits(n) ==
    IF n < 10 THEN <<DigitChar(n)>>
    ELSE Append(ToDigits(n \div 10), DigitChar(n % 10))

\* str.split(sep)
RECURSIVE SplitOn(_, _)
SplitOn(s, sep) ==
    IF \A i \in 1..Len(s) : s[i] # sep THEN <<s>>
    ELSE LET i == CHOOSE j \in 1..Len(s) :
                      s[j] = sep /\ \A k \in 1..(j - 1) : s[k] # sep
         IN <<SubSeq(s, 1, i - 1)>> \o SplitOn(SubSeq(s, i + 1, Len(s)), sep)

\* the sequence starts with "\x1b["
StartsCSI(s) == Len(s) >= 2 /\ s[1] = ESC /\ s[2] = "["

(***************************************************************************)
(* Events (termui/events.py).  A key name "ctrl+shift+up" is kept as its   *)
(* '+'-separated tokens <<"ctrl", "shift", "up">>.                         *)
(***************************************************************************)
Key(key, character) == [type |-> "Key", key |-> key, character |-> character]

\* the dataclass fields in positional order: x, y, button, widget
MouseEvent(cls, a1, a2, a3, a4) ==
    [type |-> cls, x |-> a1, y |-> a2, button |-> a3, widget |-> a4]

Paste(text) == [type |-> "Paste", text |-> text]

CursorPosition(x, y) == [type |-> "CursorPosition", x |-> x, y |-> y]

\* Resize.from_dimensions(cells) with pixels left at None
ResizeFromDimensions(width, height) ==
    [type |-> "Resize", size |-> <<width, height>>, pixel_size |-> None]

KeysIgnore == <<"<ignore>">>

(***************************************************************************)
(* Key tables (termui/keys.py) restricted to the characters of the model.  *)
(***************************************************************************)
\* str.isalnum() for the characters of the model
IsAlnum(c) == c \in Digits \cup {"a", "b", "A", "B", "M", "m", "R", "t", "u", "I", "O", "G", "y"}

\* unicodedata.name(c).lower() with '-' and ' ' replaced by '_'
UnicodeKeyName(c) ==
    CASE c = "[" -> "left_square_bracket"
      [] c = "<" -> "less_than_sign"
      [] c = ";" -> "semicolon"
      [] c = "~" -> "tilde"
      [] c = "-" -> "hyphen_minus"
      [] c = "?" -> "question_mark"
      [] c = "$" -> "dollar_sign"
      [] OTHER -> c

KeyNameReplacements(name) ==
    CASE name = "solidus" -> "slash"
      [] name = "reverse_solidus" -> "backslash"
      [] name = "commercial_at" -> "at"
      [] name = "hyphen_minus" -> "minus"
      [] name = "plus_sign" -> "plus"
      [] name = "low_line" -> "underscore"
      [] OTHER -> name

_character_to_key(c) ==
    KeyNameReplacements(IF IsAlnum(c) THEN c ELSE UnicodeKeyName(c))

\* FUNCTIONAL_KEYS.get(f"{number}{end}", ""), for the numbers below 30
FunctionalKeys(number, end) ==
    LET n == ToInt(number)
        plain == number = ToDigits(n)  \* no leading zero in the text
    IN CASE plain /\ n = 1 /\ end = "A" -> "up"
         [] plain /\ n = 1 /\ end = "B" -> "down"
         [] plain /\ n = 1 /\ end = "C" -> "right"
         [] plain /\ n = 1 /\ end = "D" -> "left"
         [] plain /\ n = 1 /\ end = "H" -> "home"
         [] plain /\ n = 1 /\ end = "F" -> "end"
         [] plain /\ n = 1 /\ end = "E" -> "kp_begin"
         [] plain /\ n = 1 /\ end = "P" -> "f1"
         [] plain /\ n = 1 /\ end = "Q" -> "f2"
         [] plain /\ n = 1 /\ end = "R" -> "f3"
         [] plain /\ n = 1 /\ end = "S" -> "f4"
         [] plain /\ n \in {1, 7} /\ end = "~" -> "home"
         [] plain /\ n \in {4, 8} /\ end = "~" -> "end"
         [] plain /\ n = 2 /\ end = "~" -> "insert"
         [] plain /\ n = 3 /\ end = "~" -> "delete"
         [] plain /\ n = 5 /\ end = "~" -> "pageup"
         [] plain /\ n = 6 /\ end = "~" -> "pagedown"
         [] plain /\ n = 11 /\ end = "~" -> "f1"
         [] plain /\ n = 12 /\ end = "~" -> "f2"
         [] plain /\ n = 13 /\ end = "~" -> "f3"
         [] plain /\ n = 14 /\ end = "~" -> "f4"
         [] plain /\ n = 15 /\ end = "~" -> "f5"
         [] plain /\ n = 17 /\ end = "~" -> "f6"
         [] plain /\ n = 18 /\ end = "~" -> "f7"
         [] plain /\ n = 19 /\ end = "~" -> "f8"
         [] plain /\ n = 20 /\ end = "~" -> "f9"
         [] plain /\ n = 21 /\ end = "~" -> "f10"
         [] plain /\ n = 23 /\ end = "~" -> "f11"
         [] plain /\ n = 24 /\ end = "~" -> "f12"
         [] plain /\ n = 9 /\ end = "u" -> "tab"
         [] plain /\ n = 13 /\ end = "u" -> "enter"
         [] plain /\ n = 27 /\ end = "u" -> "escape"
         [] OTHER -> ""

\* _character_to_key(chr(n)): the code points that are characters of the
\* model map to that character's key; any other keeps a name of its own
CodePointKey(n) ==
    CASE n = 48 -> "0" [] n = 49 -> "1" [] n = 50 -> "2" [] n = 53 -> "5"
      [] n = 59 -> "semicolon" [] n = 65 -> "A" [] n = 97 -> "a"
      [] OTHER -> "chr" \o ToString(n)

\* ANSI_SEQUENCES_KEYS.get(sequence) (termui/_ansi.py): an ignore marker, a
\* substitute character, a tuple of key names, or nothing
AnsiSequencesKeys(sequence) ==
    CASE sequence = <<ESC>> -> [kind |-> "tuple", keys |-> <<"escape">>]
      [] sequence = <<ESC, "[", "G">> -> [kind |-> "ignore"]
      [] sequence = <<ESC, "O", "A">> -> [kind |-> "tuple", keys |-> <<"up">>]
      [] sequence = <<ESC, "O", "M">> -> [kind |-> "str", char |-> "m"]
      [] OTHER -> [kind |-> "none"]


(***************************************************************************)
(* XTermParser._sequence_to_key_events                                     *)
(***************************************************************************)
ExtTerminators == {"u", "~", "A", "B", "C", "D", "E", "F", "H", "P", "Q", "R", "S"}

\* _re_extended_key.fullmatch(sequence)
ExtendedKeyMatch(s) ==
    /\ StartsCSI(s)
    /\ Len(s) >= 3
    /\ Last(s) \in ExtTerminators
    /\ LET body == SubSeq(s, 3, Len(s) - 1)
           f == SplitOn(body, ";")
       IN \/ body = <<>>
          \/ IsDigits(body)
          \/ Len(f) = 2 /\ IsDigits(f[1]) /\ IsDigits(f[2])

\* match.groups(): an absent group is the empty string of digits
ExtendedKeyGroups(s) ==
    LET f == SplitOn(SubSeq(s, 3, Len(s) - 1), ";")
    IN [number |-> f[1],
        modifiers |-> IF Len(f) = 2 THEN f[2] ELSE <<>>,
        end |-> Last(s)]

\* modifier_bits & (1 << bit), where modifier_bits = int(modifiers) - 1 >= -1
HasBit(bits, bit) == bits = -1 \/ (bits >= 0 /\ (bits \div (2 ^ bit)) % 2 = 1)

\* the modifier names whose bit is set, after key_tokens.sort()
ModifierTokens(modifiers) ==
    IF modifiers = <<>> THEN <<>>
    ELSE LET bits == ToInt(modifiers) - 1
             bitOf(name) == CASE name = "shift" -> 0 [] name = "alt" -> 1
                              [] name = "ctrl" -> 2 [] name = "super" -> 3
                              [] name = "hyper" -> 4 [] name = "meta" -> 5
             isSet(name) == HasBit(bits, bitOf(name))
         IN SelectSeq(<<"alt", "ctrl", "hyper", "meta", "shift", "super">>, isSet)

_sequence_to_key_events(sequence) ==
    IF ExtendedKeyMatch(sequence)
    THEN LET g == ExtendedKeyGroups(sequence)
             number == IF g.number = <<>> THEN <<"1">> ELSE g.number
             fk == FunctionalKeys(number, g.end)
             key == IF fk # "" THEN fk ELSE CodePointKey(ToInt(number))
         IN <<Key(Append(ModifierTokens(g.modifiers), key), None)>>
    ELSE LET keys == AnsiSequencesKeys(sequence)
             character == IF Len(sequence) = 1 THEN Some(sequence) ELSE None
             seq2 == IF keys.kind = "str" THEN <<keys.char>> ELSE sequence
         IN CASE keys.kind = "ignore" -> <<Key(KeysIgnore, Some(sequence))>>
              [] keys.kind = "tuple" ->
                    [i \in 1..Len(keys.keys) |-> Key(<<keys.keys[i]>>, character)]
              [] OTHER ->
                    IF Len(seq2) = 1
                    THEN <<Key(<<_character_to_key(seq2[1])>>, Some(seq2))>>
                    ELSE <<>>

(***************************************************************************)
(* The recognisers of XTermParser.parse                                    *)
(***************************************************************************)
MAX_SEQUENCE_SEARCH_THRESHOLD == 32

\* neither LC_TERMINAL nor TERM_PROGRAM names iTerm
IS_ITERM == FALSE

ESCAPE_DELAY == 100

BRACKETED_PASTE_START == <<ESC, "[", "2", "0", "0", "~">>

BRACKETED_PASTE_END == <<ESC, "[", "2", "0", "1", "~">>

FOCUSIN == <<ESC, "[", "I">>

FOCUSOUT == <<ESC, "[", "O">>

SPECIAL_SEQUENCES == {BRACKETED_PASTE_START, BRACKETED_PASTE_END, FOCUSIN, FOCUSOUT}

\* _re_mouse_event.match(sequence): "\x1b[" then <?[-\d;]+[mM] or M... to the end
MouseEventMatch(s) ==
    /\ StartsCSI(s)
    /\ \/ LET body == SubSeq(s, 3, Len(s) - 1)
              rest == IF body # <<>> /\ body[1] = "<" THEN Tail(body) ELSE body
          IN /\ Len(s) >= 4
             /\ Last(s) \in {"m", "M"}
             /\ rest # <<>>
             /\ \A i \in 1..Len(rest) : rest[i] \in Digits \cup {"-", ";"}
       \/ Len(s) = 6 /\ s[3] = "M"

\* _re_sgr_mouse matches the whole of s
SgrFullMatch(s) ==
    /\ StartsCSI(s)
    /\ Len(s) >= 4
    /\ s[3] = "<"
    /\ Last(s) \in {"M", "m"}
    /\ LET f == SplitOn(SubSeq(s, 4, Len(s) - 1), ";")
       IN Len(f) = 3 /\ IsDigits(f[1]) /\ IsSignedDigits(f[2]) /\ IsSignedDigits(f[3])

\* _re_sgr_mouse.match(code): the prefix of code the pattern matches, or <<>>
SgrMatch(code) ==
    LET ks == {k \in 1..Len(code) : SgrFullMatch(SubSeq(code, 1, k))}
    IN IF ks = {} THEN <<>>
       ELSE SubSeq(code, 1, CHOOSE k \in ks : \A j \in ks : k <= j)

\* buttons & mask for a single-bit mask 2^bit
ButtonBit(buttons, bit) == (buttons \div (2 ^ bit)) % 2 = 1

\* x /= pixel_width / width, to the cell below
PixelToCell(x, pixels, cells) == (x * cells) \div pixels

\* XTermParser.parse_mouse_code: [p: the parser afterwards, event: Some(event) or None]
parse_mouse_code(p, code) ==
    LET m == SgrMatch(code)
    IN IF m = <<>> THEN [p |-> p, event |-> None]
       ELSE
       LET f == SplitOn(SubSeq(m, 4, Len(m) - 1), ";")
           buttons == ToInt(f[1])
           x0 == SignedInt(f[2]) - 1
           y0 == SignedInt(f[3]) - 1
           state == Last(m)
           scaled == /\ p.mouse_pixels
                     /\ p.terminal_pixel_size # None
                     /\ p.terminal_size # None
           x == IF scaled
                THEN PixelToCell(x0, p.terminal_pixel_size[1][1], p.terminal_size[1][1])
                ELSE x0
           y == IF scaled
                THEN PixelToCell(y0, p.terminal_pixel_size[1][2], p.terminal_size[1][2])
                ELSE y0
           scroll == ButtonBit(buttons, 6)
           button == IF scroll THEN 0 ELSE (buttons + 1) % 4
           event_class ==
               IF scroll
               THEN <<"MouseScrollUp", "MouseScrollDown",
                      "MouseScrollLeft", "MouseScrollRight">>[(buttons % 4) + 1]
               ELSE IF ButtonBit(buttons, 5) \/ button = 0 THEN "MouseMove"
               ELSE IF state = "M" THEN "MouseDown" ELSE "MouseUp"
       IN IF x0 < 0 \/ y0 < 0 THEN [p |-> p, event |-> None]
          ELSE [p |-> [p EXCEPT !.last_x = x, !.last_y = y],
                \* event_class(None, x, y, button)
                event |-> Some(MouseEvent(event_class, None, Some(x), Some(y), Some(button)))]

\* _re_in_band_window_resize.fullmatch(sequence), for sequences without ':'
InBandResizeMatch(s) ==
    /\ StartsCSI(s)
    /\ Len(s) >= 7
    /\ SubSeq(s, 3, 5) = <<"4", "8", ";">>
    /\ Last(s) = "t"
    /\ LET f == SplitOn(SubSeq(s, 6, Len(s) - 1), ";")
       IN Len(f) = 4 /\ \A i \in 1..4 : IsDigits(f[i])

\* _re_cursor_position matches the whole of s
CursorPositionFullMatch(s) ==
    /\ StartsCSI(s)
    /\ Len(s) >= 3
    /\ Last(s) = "R"
    /\ LET f == SplitOn(SubSeq(s, 3, Len(s) - 1), ";")
       IN Len(f) = 2 /\ IsDigits(f[1]) /\ IsDigits(f[2])

\* _re_cursor_position.match(sequence): the prefix matched, or <<>>
CursorPositionMatch(s) ==
    LET ks == {k \in 1..Len(s) : CursorPositionFullMatch(SubSeq(s, 1, k))}
    IN IF ks = {} THEN <<>>
       ELSE SubSeq(s, 1, CHOOSE k \in ks : \A j \in ks : k <= j)

\* _re_terminal_mode_response.match(sequence): "\x1b[?" \d+ ";" \d "$y" as a prefix
ModeReportMatch(s) ==
    LET full(t) == /\ StartsCSI(t)
                   /\ Len(t) >= 8
                   /\ t[3] = "?"
                   /\ SubSeq(t, Len(t) - 1, Len(t)) = <<"$", "y">>
                   /\ t[Len(t) - 2] \in Digits
                   /\ t[Len(t) - 3] = ";"
                   /\ IsDigits(SubSeq(t, 4, Len(t) - 4))
        ks == {k \in 1..Len(s) : full(SubSeq(s, 1, k))}
    IN IF ks = {} THEN <<>>
       ELSE SubSeq(s, 1, CHOOSE k \in ks : \A j \in ks : k <= j)


(***************************************************************************)
(* XTermParser.parse: the generator.  A parser p records where the         *)
(* generator is suspended (state "ground": at `yield read1()`; "sequence": *)
(* at `yield read1(ESCAPE_DELAY)`; "returned": finished) and its locals.   *)
(* A step result r is [p: the parser, toks: the tokens passed to           *)
(* token_callback so far].                                                 *)
(***************************************************************************)
NewParser ==
    [state |-> "ground", sequence |-> <<>>,
     bracketed_paste |-> FALSE, paste_buffer |-> <<>>,
     timeout_time |-> None, eof |-> FALSE,
     last_x |-> 0, last_y |-> 0, mouse_pixels |-> FALSE,
     terminal_size |-> None, terminal_pixel_size |-> None]

\* on_token
on_token(r, token) ==
    [p |-> IF token.type = "Resize"
           THEN [r.p EXCEPT !.terminal_size = Some(token.size),
                            !.terminal_pixel_size = token.pixel_size]
           ELSE r.p,
     toks |-> Append(r.toks, token)]

\* an on_key_token that passes every key on
on_key_token_unfiltered(r, event) == on_token(r, event)

\* on_key_token
on_key_token(r, event) == IF event.key = KeysIgnore THEN r ELSE on_token(r, event)

RECURSIVE on_key_tokens(_, _)
on_key_tokens(r, evs) ==
    IF evs = <<>> THEN r
    ELSE CHOOSE res \in {on_key_tokens(r1, Tail(evs)) : r1 \in {on_key_token(r, Head(evs))}} :
             TRUE

\* the events reissue_sequence_as_keys passes to on_token for one character
ReissuedEvents(character) ==
    LET evs == _sequence_to_key_events(<<character>>)
    IN [i \in 1..Len(evs) |->
           IF evs[i].key = <<"escape">> THEN Key(<<"circumflex_accent">>, None)
           ELSE evs[i]]

RECURSIVE on_tokens(_, _)
on_tokens(r, evs) ==
    IF evs = <<>> THEN r
    ELSE CHOOSE res \in {on_tokens(r1, Tail(evs)) : r1 \in {on_token(r, Head(evs))}} : TRUE

\* a reissue that looks the whole sequence up as one key
reissue_sequence_as_one_key(r, reissue_sequence) ==
    on_tokens(r, _sequence_to_key_events(reissue_sequence))

RECURSIVE reissue_sequence_as_keys(_, _)
reissue_sequence_as_keys(r, reissue_sequence) ==
    IF reissue_sequence = <<>> THEN r
    ELSE CHOOSE res \in {reissue_sequence_as_keys(r1, Tail(reissue_sequence)) :
                            r1 \in {on_tokens(r, ReissuedEvents(Head(reissue_sequence)))}} :
             TRUE

\* a send_escape that sends the escape key and drops the rest of the sequence
send_escape_dropping(r) == on_token(r, Key(<<"escape">>, Some(<<ESC>>)))

send_escape(r) ==
    CHOOSE res \in {reissue_sequence_as_keys(r1, Tail(r.p.sequence)) :
                       r1 \in {on_token(r, Key(<<"escape">>, Some(<<ESC>>)))}} : TRUE

StripNul(text) == SelectSeq(text, LAMBDA c : c # "NUL")

\* `if not bracketed_paste and paste_buffer:` at the top of the loop
PasteFlush(r) ==
    IF ~r.p.bracketed_paste /\ r.p.paste_buffer # <<>>
    THEN on_token([r EXCEPT !.p.paste_buffer = <<>>],
                  Paste(StripNul(Front(r.p.paste_buffer))))
    ELSE r

\* the top of `while not self.is_eof`, up to `yield read1()`
LoopTop(r0) ==
    CHOOSE res \in {[PasteFlush(r) EXCEPT !.p.state = "ground", !.p.sequence = <<>>] :
                       r \in {r0}} : TRUE

\* the generator resumed with `character` at `yield read1()`
SendGround(r0, character) ==
    LET r == IF r0.p.bracketed_paste
             THEN [r0 EXCEPT !.p.paste_buffer = Append(r0.p.paste_buffer, character)]
             ELSE r0
    IN IF character # ESC
       THEN LoopTop(IF ~r.p.bracketed_paste
                    THEN on_key_tokens(r, _sequence_to_key_events(<<character>>))
                    ELSE r)
       ELSE [r EXCEPT !.p.state = "sequence", !.p.sequence = <<ESC>>]

\* `if re.fullmatch(r"\x1b\[8;...t", sequence)` branch, f being the fields
OnInBandResize(r, f) ==
    LoopTop(on_token([r EXCEPT !.p.mouse_pixels = TRUE],
                     ResizeFromDimensions(ToInt(f[2]), ToInt(f[1]))))

\* `if cursor_position_match is not None` branch, f being (row, column)
OnCursorPosition(r, f) ==
    LoopTop(on_token(r, CursorPosition(ToInt(f[2]) - 1, ToInt(f[1]) - 1)))

\* `if mouse_match is not None` branch, pm being parse_mouse_code's result
OnMouseCode(r, pm) ==
    LoopTop(IF pm.event # None
            THEN on_token([r EXCEPT !.p = pm.p], pm.event[1])
            ELSE [r EXCEPT !.p = pm.p])

\* `if mode_report_match is not None` branch, f being (mode_id, setting)
OnModeReport(r, f) ==
    LoopTop(IF f[1] = <<"2", "0", "2", "6">> /\ ToInt(f[2]) > 0
            THEN on_token(r, [type |-> "TerminalSupportsSynchronizedOutput"])
            ELSE IF f[1] = <<"2", "0", "4", "8">> /\ ~IS_ITERM
            THEN on_token(r, [type |-> "InBandWindowResize", setting |-> ToInt(f[2])])
            ELSE r)

\* the recognisers tried when the sequence is no special sequence and no
\* in-band resize report, in the order of the code
RecogniseOther(r, sequence, cursor, key_events, mode) ==
    IF r.p.bracketed_paste THEN r
    ELSE IF cursor # <<>>
    THEN OnCursorPosition(r, SplitOn(SubSeq(cursor, 3, Len(cursor) - 1), ";"))
    ELSE IF key_events # <<>>
    THEN LoopTop(on_key_tokens(r, key_events))
    ELSE IF MouseEventMatch(sequence)
    THEN OnMouseCode(r, parse_mouse_code(r.p, sequence))
    ELSE IF mode # <<>>
    THEN OnModeReport(r, SplitOn(SubSeq(mode, 4, Len(mode) - 2), ";"))
    ELSE r

\* the recognisers tried on the grown sequence, in the order of the code
RecogniseSeq(r, sequence) ==
    IF Len(sequence) > MAX_SEQUENCE_SEARCH_THRESHOLD
    THEN LoopTop(reissue_sequence_as_keys(r, sequence))
    ELSE IF sequence \in SPECIAL_SEQUENCES
    THEN LoopTop([r EXCEPT !.p.bracketed_paste =
                     IF sequence = BRACKETED_PASTE_START THEN TRUE
                     ELSE IF sequence = BRACKETED_PASTE_END THEN FALSE
                     ELSE @])
    ELSE IF InBandResizeMatch(sequence)
    THEN OnInBandResize(r, SplitOn(SubSeq(sequence, 6, Len(sequence) - 1), ";"))
    ELSE RecogniseOther(r, sequence, CursorPositionMatch(sequence),
                        _sequence_to_key_events(sequence), ModeReportMatch(sequence))

Recognise(r) == RecogniseSeq(r, r.p.sequence)

\* the generator resumed with `new_character` at `yield read1(ESCAPE_DELAY)`
SendSequence(r, new_character) ==
    IF new_character = ESC
    THEN [send_escape(r) EXCEPT !.p.sequence = <<ESC>>]
    ELSE Recognise([r EXCEPT !.p.sequence = Append(@, new_character)])

\* self._gen.send(character)
Send(r, character) ==
    IF r.p.state = "ground" THEN SendGround(r, character)
    ELSE SendSequence(r, character)

\* self._gen.throw(ParseTimeout()) at `yield read1(ESCAPE_DELAY)`
ThrowTimeout(r) == LoopTop(send_escape(r))

\* self._gen.throw(ParseEOF())
ThrowEOF(r) ==
    IF r.p.state = "sequence"
    THEN [send_escape(r) EXCEPT !.p.state = "returned"]
    ELSE [r EXCEPT !.p.state = "returned"]

\* self._awaiting.timeout
AwaitingTimeout(p) == IF p.state = "sequence" THEN Some(ESCAPE_DELAY) ELSE None

(***************************************************************************)
(* Parser.feed and Parser.tick, with their results consumed to the end.    *)
(***************************************************************************)
\* the `while pos < len(data)` loop of feed
RECURSIVE FeedLoop(_, _, _)
FeedLoop(r, data, time) ==
    IF data = <<>> THEN r
    ELSE CHOOSE res \in
             {FeedLoop(IF AwaitingTimeout(sent.p) # None
                       THEN [sent EXCEPT !.p.timeout_time =
                                            Some(time + AwaitingTimeout(sent.p)[1])]
                       ELSE sent,
                       Tail(data), time) :
                 sent \in {Send([r EXCEPT !.p.timeout_time = None], Head(data))}} : TRUE

\* a feed that starts every call from the ground state, dropping an escape
\* sequence left pending by the call before
feed_restarting(p, data, time) ==
    CHOOSE res \in {[p |-> r.p, toks |-> r.toks, raised |-> "none"] :
                       r \in {FeedLoop([p |-> [p EXCEPT !.state = "ground",
                                                        !.sequence = <<>>],
                                        toks |-> <<>>], data, time)}} : TRUE

\* feed(data): [p, toks, raised]
feed(p, data, time) ==
    IF p.eof THEN [p |-> p, toks |-> <<>>, raised |-> "ParseError"]
    ELSE IF data = <<>>
    THEN CHOOSE res \in {[p |-> r.p, toks |-> r.toks, raised |-> "none"] :
                            r \in {ThrowEOF([p |-> [p EXCEPT !.eof = TRUE],
                                             toks |-> <<>>])}} : TRUE
    ELSE CHOOSE res \in {[p |-> r.p, toks |-> r.toks, raised |-> "none"] :
                            r \in {FeedLoop([p |-> p, toks |-> <<>>], data, time)}} : TRUE

\* a tick that leaves the deadline armed after the timeout was delivered
tick_keeping_deadline(p, time) ==
    IF p.timeout_time # None /\ time >= p.timeout_time[1] /\ p.state # "returned"
    THEN CHOOSE res \in {[p |-> [r.p EXCEPT !.timeout_time = p.timeout_time],
                          toks |-> r.toks, raised |-> "none"] :
                            r \in {ThrowTimeout([p |-> p, toks |-> <<>>])}} : TRUE
    ELSE [p |-> p, toks |-> <<>>, raised |-> "none"]

\* tick(): [p, toks, raised].  Thrown into a finished generator, ParseTimeout
\* comes straight back out of tick
tick(p, time) ==
    IF p.timeout_time # None /\ time >= p.timeout_time[1]
    THEN IF p.state = "returned"
         THEN [p |-> [p EXCEPT !.timeout_time = None], toks |-> <<>>,
               raised |-> "ParseTimeout"]
         ELSE CHOOSE res \in {[p |-> r.p, toks |-> r.toks, raised |-> "none"] :
                                 r \in {ThrowTimeout([p |-> [p EXCEPT !.timeout_time = None],
                                                      toks |-> <<>>])}} : TRUE
    ELSE [p |-> p, toks |-> <<>>, raised |-> "none"]


(***************************************************************************)
(* The parser and its caller.  The caller passes the characters of `input` *)
(* to feed() in chunks of any size, calls tick() at any time, and may end  *)
(* the stream with an empty feed.                                          *)
(***************************************************************************)
MaxLen == 3

MaxClock == 3

ShortAlphabet == {ESC, "[", "A", "a", "1", ";"}

MouseCoords == {1, 5, 10}

\* "\x1b[<{buttons};{x};{y}{state}"
SgrMouse(buttons, x, y, state) ==
    <<ESC, "[", "<">> \o ToDigits(buttons) \o <<";">> \o ToDigits(x) \o <<";">>
        \o ToDigits(y) \o <<state>>

\* ESC [ and 31 digits: one character more than the threshold, and nothing
\* any recogniser matches
UnknownSequence ==
    <<ESC, "[">> \o [i \in 1..(MAX_SEQUENCE_SEARCH_THRESHOLD - 1) |-> "1"]

LongInputs ==
    {SgrMouse(0, x, y, "M") : x \in MouseCoords, y \in MouseCoords}
    \cup {SgrMouse(b, 2, 3, st) : b \in {0, 1, 2, 3, 32, 35, 64, 65}, st \in {"M", "m"}}
    \cup {SgrMouse(0, 0, 5, "M"),
          <<ESC, "[", "M", "a", "b", "a">>,
          <<ESC, "[", "1", ";", "5", "A">>,
          <<ESC, "[", "9", "7", ";", "6", "u">>,
          <<ESC, "[", "2", ";", "3", "R">>,
          <<ESC, "[", "G", "a">>,
          <<ESC, "O", "A", ESC, "O", "M">>,
          <<ESC, "[", "I", ESC, "[", "O">>,
          <<ESC, "[", "4", "8", ";", "5", ";", "1", "0", ";", "0", ";", "0", "t">>,
          BRACKETED_PASTE_START \o <<"a", "NUL", "b">> \o BRACKETED_PASTE_END \o <<"a">>,
          BRACKETED_PASTE_START \o <<"a", ESC, "[", "A">> \o BRACKETED_PASTE_END,
          <<"a", ESC, "[", "<", ESC, "[", "A", "b">>,
          UnknownSequence \o <<"a">>,
          Front(UnknownSequence) \o <<ESC, "[", "A">>}

Inputs == SeqsUpTo(ShortAlphabet, MaxLen) \cup LongInputs

HalfDelay == ESCAPE_DELAY \div 2

InitParser ==
    /\ input \in Inputs
    /\ fed = 0
    /\ parser = NewParser
    /\ out = <<>>
    /\ lastOp = "none"
    /\ lastOut = <<>>
    /\ timedOut = FALSE
    /\ now = 0

\* for event in parser.feed(chunk), for the next k characters of the input
FeedChunk ==
    /\ ~parser.eof
    /\ \E k \in 1..(Len(input) - fed) :
          \E r \in {feed(parser, SubSeq(input, fed + 1, fed + k), now)} :
             /\ parser' = r.p
             /\ out' = out \o r.toks
             /\ lastOut' = r.toks
             /\ fed' = fed + k
    /\ lastOp' = "feed"
    /\ UNCHANGED <<input, timedOut, now>>

\* for event in parser.feed(""): the end of the stream
FeedEOF ==
    /\ ~parser.eof
    /\ \E r \in {feed(parser, <<>>, now)} :
          /\ parser' = r.p
          /\ out' = out \o r.toks
          /\ lastOut' = r.toks
    /\ lastOp' = "eof"
    /\ UNCHANGED <<input, fed, timedOut, now>>

\* feed() on a parser that has seen the end of the stream raises ParseError
FeedAfterEOF ==
    /\ parser.eof
    /\ lastOp # "error"
    /\ feed(parser, <<>>, now).raised = "ParseError"
    /\ lastOp' = "error"
    /\ lastOut' = <<>>
    /\ UNCHANGED <<input, fed, parser, out, timedOut, now>>

\* for event in parser.tick()
Tick ==
    /\ \E r \in {tick(parser, now)} :
          /\ parser' = r.p
          /\ out' = out \o r.toks
          /\ lastOut' = r.toks
          /\ timedOut' = (timedOut \/ r.p # parser)
    /\ lastOp' = "tick"
    /\ UNCHANGED <<input, fed, now>>

\* time passes
Advance ==
    /\ now < MaxClock * HalfDelay
    /\ now' = now + HalfDelay
    /\ lastOp' = "advance"
    /\ lastOut' = <<>>
    /\ UNCHANGED <<input, fed, parser, out, timedOut>>

NextParser ==
    \/ FeedChunk /\ UNCHANGED <<domVars, listVars, rendVars, ioVars>>
    \/ FeedEOF /\ UNCHANGED <<domVars, listVars, rendVars, ioVars>>
    \/ FeedAfterEOF /\ UNCHANGED <<domVars, listVars, rendVars, ioVars>>
    \/ Tick /\ UNCHANGED <<domVars, listVars, rendVars, ioVars>>
    \/ Advance /\ UNCHANGED <<domVars, listVars, rendVars, ioVars>>


(***************************************************************************)
(* DOMNode (termui/dom/dom_node.py) and the set-backed DOMTree              *)
(* (termui/dom_tree.py).  Node objects are the names in Nodes; `nodes`     *)
(* holds each object's mutable fields and `tree` the fields of the one     *)
(* DOMTree.  Any two objects differ in id or in name, so the dataclass's   *)
(* field-wise == is identity on them.                                      *)
(***************************************************************************)
Nodes == {"n1", "n2", "n3"}

\* DOMNode.id
NodeId(n) ==
    CASE n = "n1" -> "a" [] n = "n2" -> "b" [] n = "n3" -> "a"

\* DOMNode.name; "" is the default
NodeName(n) ==
    CASE n = "n1" -> "" [] n = "n2" -> "a" [] n = "n3" -> "x"

Ids == {NodeId(n) : n \in Nodes}

\* name_key = node.name if node.name else node.id
NameKey(n) == IF NodeName(n) # "" THEN NodeName(n) ELSE NodeId(n)

NameKeys == {NameKey(n) : n \in Nodes}

MaxLinks == 3

\* list.remove(x): the list without the first occurrence of x
RECURSIVE ListRemove(_, _)
ListRemove(list, x) ==
    IF list = <<>> THEN <<>>
    ELSE IF Head(list) = x THEN Tail(list)
    ELSE <<Head(list)>> \o ListRemove(Tail(list), x)

\* DOMNode.add_child
add_child(nd, self, child) ==
    [[nd EXCEPT ![child].parent = Some(self)] EXCEPT ![self].children = Append(@, child)]

\* DOMNode.add_children
RECURSIVE add_children(_, _, _)
add_children(nd, self, children) ==
    IF children = <<>> THEN nd
    ELSE add_children(add_child(nd, self, Head(children)), self, Tail(children))

\* DOMNode.remove_child
remove_child(nd, self, child) ==
    IF child \in Range(nd[self].children)
    THEN [[nd EXCEPT ![child].parent = None]
              EXCEPT ![self].children = ListRemove(nd[self].children, child)]
    ELSE nd

\* DOMNode.mark_dirty
mark_dirty(nd, self) == [nd EXCEPT ![self].dirty = TRUE]

\* a cascade that marks the node and its parent and stops there
mark_dirty_parent_only(nd, self) ==
    IF nd[self].parent # None
    THEN mark_dirty(mark_dirty(nd, self), nd[self].parent[1])
    ELSE mark_dirty(nd, self)

\* DOMNode.mark_dirty_cascade_up; a parent, when set, is a node and so truthy
RECURSIVE mark_dirty_cascade_up(_, _)
mark_dirty_cascade_up(nd, self) ==
    IF nd[self].parent # None
    THEN mark_dirty_cascade_up(mark_dirty(nd, self), nd[self].parent[1])
    ELSE mark_dirty(nd, self)

\* DOMNode.mark_dirty_cascade_down, and its loop over a list of children
RECURSIVE mark_dirty_cascade_down(_, _), CascadeDownAll(_, _)
mark_dirty_cascade_down(nd, self) ==
    CascadeDownAll(mark_dirty(nd, self), nd[self].children)

CascadeDownAll(nd, children) ==
    IF children = <<>> THEN nd
    ELSE CascadeDownAll(mark_dirty_cascade_down(nd, Head(children)), Tail(children))

\* the node and everything under it by children links
RECURSIVE Descendants(_, _)
Descendants(nd, n) ==
    {n} \cup UNION {Descendants(nd, nd[n].children[i]) : i \in 1..Len(nd[n].children)}

\* the node and everything above it by parent references
RECURSIVE Ancestors(_, _)
Ancestors(nd, n) ==
    IF nd[n].parent = None THEN {n} ELSE {n} \cup Ancestors(nd, nd[n].parent[1])

\* DOMTree.__init__
NewTree ==
    [root |-> None, nodes |-> {},
     nodes_by_id |-> [i \in Ids |-> None],
     nodes_by_name |-> [k \in NameKeys |-> None]]

\* DOMTree._add_node_to_lookups, and its loop over the children
RECURSIVE _add_node_to_lookups(_, _, _), AddAllToLookups(_, _, _)
_add_node_to_lookups(t, nd, node) ==
    AddAllToLookups([t EXCEPT !.nodes = @ \cup {node},
                              !.nodes_by_id[NodeId(node)] = Some(node),
                              !.nodes_by_name[NameKey(node)] = Some(node)],
                    nd, nd[node].children)

AddAllToLookups(t, nd, children) ==
    IF children = <<>> THEN t
    ELSE AddAllToLookups(_add_node_to_lookups(t, nd, Head(children)), nd, Tail(children))

\* DOMTree.set_root
set_root(t, nd, root) == _add_node_to_lookups([t EXCEPT !.root = Some(root)], nd, root)

\* `if self.root is None:` of add_node
AdoptRoot(t, nd, parent) ==
    IF t.root = None THEN set_root(t, nd, parent) ELSE t

\* DOMTree.add_node: [tree, nodes, raised (ValueError)]
add_node(t, nd, parent, child) ==
    IF t.nodes_by_id[NodeId(child)] # None
    THEN [tree |-> t, nodes |-> nd, raised |-> TRUE]
    ELSE [tree |-> _add_node_to_lookups(AdoptRoot(t, nd, parent),
                                       add_child(nd, parent, child), child),
          nodes |-> add_child(nd, parent, child),
          raised |-> FALSE]

\* DOMTree.remove_node: [tree, nodes]
remove_node(t, nd, node) ==
    IF node \in t.nodes
    THEN [tree |-> [t EXCEPT !.nodes = @ \ {node},
                             !.nodes_by_id[NodeId(node)] = None,
                             !.nodes_by_name[NameKey(node)] = None],
          nodes |-> IF nd[node].parent # None
                    THEN remove_child(nd, nd[node].parent[1], node)
                    ELSE nd]
    ELSE [tree |-> t, nodes |-> nd]

(***************************************************************************)
(* The DOM and its caller.  The caller builds nodes clean or dirty, then   *)
(* calls the tree's and the nodes' methods in any order.  It never makes a *)
(* node its own descendant: the traversals of the code do not end on such  *)
(* a structure.                                                            *)
(***************************************************************************)
\* the last call: the method, the node it was called on or with, and whether it raised
DomOp(op, a, raised) == [op |-> op, a |-> a, raised |-> raised]

\* linking child under parent keeps the children links free of cycles
NoCycle(parent, child) == parent \notin Descendants(nodes, child)

\* the number of entries of all the children lists
RECURSIVE LinkCount(_, _)
LinkCount(nd, S) ==
    IF S = {} THEN 0
    ELSE LinkCount(nd, S \ {CHOOSE n \in S : TRUE})
             + Len(nd[CHOOSE n \in S : TRUE].children)

\* the caller links k more children
Room(k) == LinkCount(nodes, Nodes) + k <= MaxLinks

\* nodes built with the default dirty = True, and an empty tree
InitDom ==
    /\ nodes = [n \in Nodes |-> [parent |-> None, children |-> <<>>, dirty |-> TRUE]]
    /\ tree = NewTree
    /\ domOp = DomOp("none", "", FALSE)

\* nodes built all clean or all dirty, outside any tree
InitNode ==
    /\ \E dirty \in BOOLEAN :
          nodes = [n \in Nodes |-> [parent |-> None, children |-> <<>>, dirty |-> dirty]]
    /\ tree = NewTree
    /\ domOp = DomOp("none", "", FALSE)

SetRoot ==
    \E root \in Nodes :
        /\ tree' = set_root(tree, nodes, root)
        /\ nodes' = nodes
        /\ domOp' = DomOp("set_root", root, FALSE)

AddNode ==
    \E parent \in Nodes, child \in Nodes :
        /\ NoCycle(parent, child)
        /\ Room(1)
        /\ \E r \in {add_node(tree, nodes, parent, child)} :
              /\ tree' = r.tree
              /\ nodes' = r.nodes
              /\ domOp' = DomOp("add_node", parent, r.raised)

RemoveNode ==
    \E node \in Nodes :
        \E r \in {remove_node(tree, nodes, node)} :
            /\ tree' = r.tree
            /\ nodes' = r.nodes
            /\ domOp' = DomOp("remove_node", node, FALSE)

AddChild ==
    \E self \in Nodes, child \in Nodes :
        /\ NoCycle(self, child)
        /\ Room(1)
        /\ nodes' = add_child(nodes, self, child)
        /\ domOp' = DomOp("add_child", self, FALSE)
        /\ tree' = tree

AddChildren ==
    \E self \in Nodes, c1 \in Nodes, c2 \in Nodes :
        /\ NoCycle(self, c1)
        /\ NoCycle(self, c2)
        /\ Room(2)
        /\ nodes' = add_children(nodes, self, <<c1, c2>>)
        /\ domOp' = DomOp("add_children", self, FALSE)
        /\ tree' = tree

RemoveChild ==
    \E self \in Nodes, child \in Nodes :
        /\ nodes' = remove_child(nodes, self, child)
        /\ domOp' = DomOp("remove_child", self, FALSE)
        /\ tree' = tree

CascadeUp ==
    \E self \in Nodes :
        /\ nodes' = mark_dirty_cascade_up(nodes, self)
        /\ domOp' = DomOp("mark_dirty_cascade_up", self, FALSE)
        /\ tree' = tree

CascadeDown ==
    \E self \in Nodes :
        /\ nodes' = mark_dirty_cascade_down(nodes, self)
        /\ domOp' = DomOp("mark_dirty_cascade_down", self, FALSE)
        /\ tree' = tree

\* the tree and the nodes under it
NextDom ==
    \/ SetRoot /\ UNCHANGED <<parserVars, listVars, rendVars, ioVars>>
    \/ AddNode /\ UNCHANGED <<parserVars, listVars, rendVars, ioVars>>
    \/ RemoveNode /\ UNCHANGED <<parserVars, listVars, rendVars, ioVars>>
    \/ AddChild /\ UNCHANGED <<parserVars, listVars, rendVars, ioVars>>
    \/ AddChildren /\ UNCHANGED <<parserVars, listVars, rendVars, ioVars>>
    \/ RemoveChild /\ UNCHANGED <<parserVars, listVars, rendVars, ioVars>>

\* the tree called through its own methods only
NextTree ==
    \/ SetRoot /\ UNCHANGED <<parserVars, listVars, rendVars, ioVars>>
    \/ AddNode /\ UNCHANGED <<parserVars, listVars, rendVars, ioVars>>
    \/ RemoveNode /\ UNCHANGED <<parserVars, listVars, rendVars, ioVars>>

\* the nodes alone
NextNode ==
    \/ AddChild /\ UNCHANGED <<parserVars, listVars, rendVars, ioVars>>
    \/ AddChildren /\ UNCHANGED <<parserVars, listVars, rendVars, ioVars>>
    \/ RemoveChild /\ UNCHANGED <<parserVars, listVars, rendVars, ioVars>>
    \/ CascadeUp /\ UNCHANGED <<parserVars, listVars, rendVars, ioVars>>
    \/ CascadeDown /\ UNCHANGED <<parserVars, listVars, rendVars, ioVars>>

(***************************************************************************)
(* The list-backed DOMTree (termui/_dom_tree.py).  Its nodes are DOMNode   *)
(* objects left with their default fields apart from id and name, so two   *)
(* objects are == exactly when id and name agree: p1 and p2 are equal      *)
(* twins, p3 shares their id only.                                         *)
(***************************************************************************)
ListNodes == {"root", "p1", "p2", "p3", "p4"}

ListNodeId(n) ==
    CASE n = "root" -> "root" [] n = "p1" -> "a" [] n = "p2" -> "a"
      [] n = "p3" -> "a" [] n = "p4" -> "b"

ListNodeName(n) == IF n = "p3" THEN "x" ELSE ""

ListIds == {ListNodeId(n) : n \in ListNodes}

\* the dataclass __eq__
NodeEq(a, b) == ListNodeId(a) = ListNodeId(b) /\ ListNodeName(a) = ListNodeName(b)

\* node in self._nodes_set (hash by id, then ==)
InNodesSet(t, node) == \E m \in t.nodes_set : NodeEq(m, node)

\* DOMTree.__init__() with no root given
NewListTree ==
    [nodes |-> <<"root">>, nodes_set |-> {"root"},
     nodes_by_id |-> [i \in ListIds |-> IF i = "root" THEN Some("root") ELSE None]]

\* list.insert(index, x)
ListInsert(list, index, x) ==
    LET n == Len(list)
        i == IF index < 0 THEN (IF index + n < 0 THEN 0 ELSE index + n)
             ELSE IF index > n THEN n ELSE index
    IN SubSeq(list, 1, i) \o <<x>> \o SubSeq(list, i + 1, n)

\* list.index(x): the first position holding an element == x
ListIndex(list, x) == CHOOSE i \in 1..Len(list) :
                         NodeEq(list[i], x) /\ \A j \in 1..(i - 1) : ~NodeEq(list[j], x)

\* _ensure_unique_id and the lines after it: [tree, raised (DuplicateIds)]
RegisterId(t, node) ==
    IF t.nodes_by_id[ListNodeId(node)] # None
    THEN [tree |-> t, raised |-> TRUE]
    ELSE [tree |-> [t EXCEPT !.nodes_by_id[ListNodeId(node)] = Some(node)],
          raised |-> FALSE]

\* DOMTree._append
_append(t, node) ==
    IF ~InNodesSet(t, node)
    THEN RegisterId([t EXCEPT !.nodes = Append(@, node), !.nodes_set = @ \cup {node}], node)
    ELSE [tree |-> t, raised |-> FALSE]

\* DOMTree._insert
_insert(t, index, node) ==
    IF ~InNodesSet(t, node)
    THEN RegisterId([t EXCEPT !.nodes = ListInsert(t.nodes, index, node),
                              !.nodes_set = @ \cup {node}], node)
    ELSE [tree |-> t, raised |-> FALSE]

\* DOMTree._remove
_remove(t, node) ==
    IF InNodesSet(t, node)
    THEN [t EXCEPT !.nodes = SubSeq(t.nodes, 1, ListIndex(t.nodes, node) - 1)
                                 \o SubSeq(t.nodes, ListIndex(t.nodes, node) + 1,
                                            Len(t.nodes)),
                   !.nodes_set = {m \in t.nodes_set : ~NodeEq(m, node)},
                   !.nodes_by_id[ListNodeId(node)] = None]
    ELSE t

\* DOMTree._clear
_clear(t) ==
    IF t.nodes # <<>>
    THEN [nodes |-> <<>>, nodes_set |-> {}, nodes_by_id |-> [i \in ListIds |-> None]]
    ELSE t

ListOp(op, node, raised) == [op |-> op, node |-> node, raised |-> raised]

InsertIndices == {0, 1, -1}

InitList ==
    /\ ltree = NewListTree
    /\ listOp = ListOp("none", "", FALSE)

ListAppend ==
    \E node \in ListNodes :
        \E r \in {_append(ltree, node)} :
            /\ ltree' = r.tree
            /\ listOp' = ListOp("_append", node, r.raised)

ListInsertAt ==
    \E node \in ListNodes, index \in InsertIndices :
        \E r \in {_insert(ltree, index, node)} :
            /\ ltree' = r.tree
            /\ listOp' = ListOp("_insert", node, r.raised)

ListRemoveNode ==
    \E node \in ListNodes :
        /\ ltree' = _remove(ltree, node)
        /\ listOp' = ListOp("_remove", node, FALSE)

ListClear ==
    /\ ltree' = _clear(ltree)
    /\ listOp' = ListOp("_clear", "", FALSE)

NextList ==
    \/ ListAppend /\ UNCHANGED <<parserVars, domVars, rendVars, ioVars>>
    \/ ListInsertAt /\ UNCHANGED <<parserVars, domVars, rendVars, ioVars>>
    \/ ListRemoveNode /\ UNCHANGED <<parserVars, domVars, rendVars, ioVars>>
    \/ ListClear /\ UNCHANGED <<parserVars, domVars, rendVars, ioVars>>


(***************************************************************************)
(* The renderer (termui/renderer.py).  A Char is its glyph, the colours    *)
(* being left at None.  `termSize` is what get_terminal_size() returns and *)
(* `screen` what the terminal displays: a cell shows the last glyph        *)
(* written to it, and a resize keeps the cells that stay on the screen.    *)
(***************************************************************************)
MaxWidth == 2

MaxHeight == 2

Sizes == (1..MaxWidth) \X (1..MaxHeight)

Blank == " "

Cells(width, height) == (0..(width - 1)) \X (0..(height - 1))

BlankFrame(width, height) == [c \in Cells(width, height) |-> Blank]

Region(x, y, width, height) == [x |-> x, y |-> y, width |-> width, height |-> height]

Max(a, b) == IF a > b THEN a ELSE b

Min(a, b) == IF a < b THEN a ELSE b

\* FrameBuffer.__init__
NewFrameBuffer(width, height) ==
    [width |-> width, height |-> height,
     current_frame |-> BlankFrame(width, height),
     previous_frame |-> BlankFrame(width, height),
     dirty_regions |-> {}]

\* FrameBuffer.mark_entire_screen_dirty
mark_entire_screen_dirty(fb) ==
    [fb EXCEPT !.dirty_regions = @ \cup {<<0, 0, fb.width, fb.height>>}]

\* FrameBuffer.resize
resize(fb, width, height) ==
    IF width = fb.width /\ height = fb.height THEN fb
    ELSE mark_entire_screen_dirty(
             [fb EXCEPT !.width = width, !.height = height,
                        !.current_frame = BlankFrame(width, height),
                        !.previous_frame = BlankFrame(width, height)])

\* the clipped rectangle mark_region_dirty records
ClippedRegion(fb, region) ==
    <<Max(0, region.x), Max(0, region.y),
      Min(fb.width - Max(0, region.x), region.width),
      Min(fb.height - Max(0, region.y), region.height)>>

\* FrameBuffer.mark_region_dirty
mark_region_dirty(fb, region) ==
    IF ClippedRegion(fb, region)[3] > 0 /\ ClippedRegion(fb, region)[4] > 0
    THEN [fb EXCEPT !.dirty_regions = @ \cup {ClippedRegion(fb, region)}]
    ELSE fb

\* FrameBuffer.clear
clear(fb) ==
    mark_entire_screen_dirty(
        [fb EXCEPT !.current_frame = BlankFrame(fb.width, fb.height)])

\* the cell is under a glyph of `content` laid out at the region's corner
Covered(c, region, content) ==
    /\ c[2] - region.y + 1 \in 1..Len(content)
    /\ c[1] - region.x + 1 \in 1..Len(content[c[2] - region.y + 1])

\* FrameBuffer.draw_content; cells off the frame are skipped with or
\* without clip
draw_content(fb, region, content) ==
    mark_region_dirty(
        [fb EXCEPT !.current_frame =
            [c \in Cells(fb.width, fb.height) |->
                IF Covered(c, region, content)
                THEN content[c[2] - region.y + 1][c[1] - region.x + 1]
                ELSE fb.current_frame[c]]],
        region)

\* the cells FrameBuffer.render writes
Writes(fb) ==
    IF fb.dirty_regions = {} THEN {}
    ELSE {c \in Cells(fb.width, fb.height) : fb.current_frame[c] # fb.previous_frame[c]}

\* FrameBuffer.render: [fb, writes: the cells written]
render(fb) ==
    IF fb.dirty_regions = {}
    THEN [fb |-> fb, writes |-> {}]
    ELSE [fb |-> [fb EXCEPT !.previous_frame = fb.current_frame, !.dirty_regions = {}],
          writes |-> Writes(fb)]

\* the renderables of the model: their ids, the regions of their nodes and
\* the glyphs they can paint
RenderIds == {"w1", "w2"}

NodeRegion(id) == IF id = "w1" THEN Region(0, 0, 2, 1) ELSE Region(1, 0, 1, 2)

Glyphs == {"X", "Y"}

\* Renderable.get_render_node: a new RenderNode(id, region)
get_render_node(id) == [content |-> <<>>, dirty |-> TRUE]

\* Renderable.update_render_node: the node's content becomes the renderable's
\* picture, its region filled with the renderable's glyph
update_render_node(node, id, glyph) ==
    [node EXCEPT !.content = [row \in 1..NodeRegion(id).height |->
                                 [col \in 1..NodeRegion(id).width |-> glyph]]]

\* Renderer.__init__; `glyph` and `broken` belong to the renderables: what
\* update_render_node paints and whether it raises.  `blits` is not a field
\* of the program: it lists the nodes passed to draw_content by the last
\* render_frame, in order
NewRenderer(size) ==
    [width |-> size[1], height |-> size[2],
     frame_buffer |-> NewFrameBuffer(size[1], size[2]),
     children |-> <<>>,
     nodes |-> [id \in RenderIds |-> None],
     renderables |-> {},
     glyph |-> [id \in RenderIds |-> "X"],
     broken |-> {},
     blits |-> <<>>]

\* Renderer.resize_if_needed
resize_if_needed(r, size) ==
    IF size[1] # r.width \/ size[2] # r.height
    THEN [r EXCEPT !.width = size[1], !.height = size[2],
                   !.frame_buffer = resize(r.frame_buffer, size[1], size[2])]
    ELSE r

\* Renderer.register_renderable with the default parent: [r, raised]
register_renderable(r, id) ==
    IF r.nodes[id] # None
    THEN [r |-> r, raised |-> TRUE]
    ELSE [r |-> [r EXCEPT !.children = Append(@, id),
                          !.nodes[id] = Some(get_render_node(id)),
                          !.renderables = @ \cup {id}],
          raised |-> FALSE]

\* Renderer.unregister_renderable
unregister_renderable(r, id) ==
    [r EXCEPT !.children = IF r.nodes[id] # None THEN ListRemove(r.children, id)
                           ELSE r.children,
              !.nodes[id] = None,
              !.renderables = @ \ {id}]

\* Renderer.update_renderable
update_renderable(r, id) ==
    IF id \in r.renderables /\ r.nodes[id] # None /\ id \notin r.broken
    THEN [r EXCEPT !.nodes[id] =
             Some([update_render_node(r.nodes[id][1], id, r.glyph[id])
                      EXCEPT !.dirty = TRUE])]
    ELSE r

\* update_render_node of this renderable is called by the first loop of
\* render_frame and raises
Raises(r, id) ==
    /\ id \in r.renderables
    /\ r.nodes[id] # None
    /\ r.nodes[id][1].dirty
    /\ id \in r.broken

\* the renderables the first loop gets past, in the order of self.renderables
\* (the order of registration, which is the order of root.children)
RECURSIVE Reached(_, _)
Reached(r, ids) ==
    IF ids = <<>> \/ Raises(r, Head(ids)) THEN {}
    ELSE {Head(ids)} \cup Reached(r, Tail(ids))

\* the first loop of render_frame does not come to its end
UpdateRaises(r) == \E i \in 1..Len(r.children) : Raises(r, r.children[i])

\* the first loop of render_frame: every dirty node is brought up to date,
\* up to the first renderable that raises
UpdateDirtyNodes(r) ==
    [r EXCEPT !.nodes =
        [id \in RenderIds |->
            IF /\ id \in Reached(r, r.children)
               /\ id \in r.renderables /\ r.nodes[id] # None /\ r.nodes[id][1].dirty
            THEN Some(update_render_node(r.nodes[id][1], id, r.glyph[id]))
            ELSE r.nodes[id]]]

\* the second loop of render_frame over traverse_visible_nodes(): the nodes
\* in the order of root.children, each drawn and cleaned when dirty with content
RECURSIVE DrawNodes(_, _)
DrawNodes(r, ids) ==
    IF ids = <<>> THEN r
    ELSE DrawNodes(
             IF r.nodes[Head(ids)][1].dirty /\ r.nodes[Head(ids)][1].content # <<>>
             THEN [r EXCEPT !.frame_buffer =
                                draw_content(r.frame_buffer, NodeRegion(Head(ids)),
                                             r.nodes[Head(ids)][1].content),
                            !.nodes[Head(ids)] =
                                Some([r.nodes[Head(ids)][1] EXCEPT !.dirty = FALSE]),
                            !.blits = Append(r.blits, Head(ids))]
             ELSE r,
             Tail(ids))

\* `self.frame_buffer.clear()` of render_frame
ClearFrame(r) == [r EXCEPT !.frame_buffer = clear(r.frame_buffer)]

\* render_frame up to frame_buffer.render()
PrepareFrame(r, size) ==
    DrawNodes(ClearFrame(UpdateDirtyNodes(resize_if_needed([r EXCEPT !.blits = <<>>], size))),
              r.children)

\* `self.frame_buffer.render()` of render_frame: [r, writes]
RenderPrepared(r) ==
    [r |-> [r EXCEPT !.frame_buffer = render(r.frame_buffer).fb],
     writes |-> render(r.frame_buffer).writes]

\* Renderer.render_frame: [r, writes]; an exception of update_render_node
\* leaves the method before clear(), the draw loop and render()
render_frame(r, size) ==
    IF UpdateRaises(r)
    THEN [r |-> UpdateDirtyNodes(resize_if_needed([r EXCEPT !.blits = <<>>], size)),
          writes |-> {}]
    ELSE RenderPrepared(PrepareFrame(r, size))

(***************************************************************************)
(* The renderer, the application and the terminal.                         *)
(***************************************************************************)
RendOp(op, resized, writes) == [op |-> op, resized |-> resized, writes |-> writes]

InitRender ==
    /\ termSize \in Sizes
    /\ rend = NewRenderer(termSize)
    /\ screen = BlankFrame(termSize[1], termSize[2])
    /\ rendOp = RendOp("none", FALSE, {})

Register ==
    \E id \in RenderIds :
        /\ rend' = register_renderable(rend, id).r
        /\ rendOp' = RendOp("register_renderable", FALSE, {})
        /\ UNCHANGED <<termSize, screen>>

Unregister ==
    \E id \in RenderIds :
        /\ rend' = unregister_renderable(rend, id)
        /\ rendOp' = RendOp("unregister_renderable", FALSE, {})
        /\ UNCHANGED <<termSize, screen>>

\* the renderable changes what it paints, telling no one
Repaint ==
    \E id \in RenderIds, glyph \in Glyphs :
        /\ rend' = [rend EXCEPT !.glyph[id] = glyph]
        /\ rendOp' = RendOp("repaint", FALSE, {})
        /\ UNCHANGED <<termSize, screen>>

\* a renderable starts or stops raising from update_render_node
Break ==
    \E id \in RenderIds :
        /\ rend' = [rend EXCEPT !.broken = IF id \in rend.broken
                                           THEN rend.broken \ {id}
                                           ELSE rend.broken \cup {id}]
        /\ rendOp' = RendOp("break", FALSE, {})
        /\ UNCHANGED <<termSize, screen>>

UpdateRenderable ==
    \E id \in RenderIds :
        /\ rend' = update_renderable(rend, id)
        /\ rendOp' = RendOp("update_renderable", FALSE, {})
        /\ UNCHANGED <<termSize, screen>>

\* the user resizes the terminal
TerminalResize ==
    \E size \in Sizes \ {termSize} :
        /\ termSize' = size
        /\ screen' = [c \in Cells(size[1], size[2]) |->
                         IF c \in DOMAIN screen THEN screen[c] ELSE Blank]
        /\ rendOp' = RendOp("terminal_resize", FALSE, {})
        /\ rend' = rend

RenderFrame ==
    \E res \in {render_frame(rend, termSize)} :
        /\ rend' = res.r
        /\ screen' = [c \in DOMAIN screen |->
                         IF c \in res.writes THEN res.r.frame_buffer.current_frame[c]
                         ELSE screen[c]]
        /\ rendOp' = RendOp("render_frame",
                            termSize # <<rend.width, rend.height>>, res.writes)
        /\ termSize' = termSize

NextRender ==
    \/ Register /\ UNCHANGED <<parserVars, domVars, listVars, ioVars>>
    \/ Unregister /\ UNCHANGED <<parserVars, domVars, listVars, ioVars>>
    \/ Repaint /\ UNCHANGED <<parserVars, domVars, listVars, ioVars>>
    \/ UpdateRenderable /\ UNCHANGED <<parserVars, domVars, listVars, ioVars>>
    \/ TerminalResize /\ UNCHANGED <<parserVars, domVars, listVars, ioVars>>
    \/ RenderFrame /\ UNCHANGED <<parserVars, domVars, listVars, ioVars>>

\* the renderer with renderables that may raise, on a terminal that keeps
\* its size; RenderFrame is one turn of the render loop, which catches
NextRenderFail ==
    \/ Register /\ UNCHANGED <<parserVars, domVars, listVars, ioVars>>
    \/ Repaint /\ UNCHANGED <<parserVars, domVars, listVars, ioVars>>
    \/ Break /\ UNCHANGED <<parserVars, domVars, listVars, ioVars>>
    \/ UpdateRenderable /\ UNCHANGED <<parserVars, domVars, listVars, ioVars>>
    \/ RenderFrame /\ UNCHANGED <<parserVars, domVars, listVars, ioVars>>

(***************************************************************************)
(* The frame buffer on its own (termui/renderer.py FrameBuffer,            *)
(* termui/cursor.py): its methods called in any order on the renderer's    *)
(* frame_buffer.  rendOp holds the last call and, for render, the calls it *)
(* made on the driver and on sys.stdout, in order.                         *)
(***************************************************************************)
\* FrameBuffer.draw_char
draw_char(fb, x, y, char) ==
    IF 0 <= x /\ x < fb.width /\ 0 <= y /\ y < fb.height
    THEN IF fb.current_frame[<<x, y>>] # char
         THEN mark_region_dirty([fb EXCEPT !.current_frame[<<x, y>>] = char],
                                Region(x, y, 1, 1))
         ELSE fb
    ELSE fb

\* Cursor.move(x, y): the text f"\033[{y};{x}H" passed to the driver
Cursor_move(x, y) == <<ESC, "[">> \o ToDigits(y) \o <<";">> \o ToDigits(x) \o <<"H">>

\* colorize(char, fg=None, bg=None) of a cell without colours
colorize(char) == <<char>>

\* the body of render's loop for the cell x, y
RenderCell(fb, x, y) ==
    IF fb.current_frame[<<x, y>>] # fb.previous_frame[<<x, y>>]
    THEN <<[to |-> "driver", text |-> Cursor_move(x + 1, y + 1)],
           [to |-> "stdout", text |-> colorize(fb.current_frame[<<x, y>>])]>>
    ELSE <<>>

\* `for y in range(self.height): for x in range(self.width)`, from the
\* k-th cell on
RECURSIVE RenderCells(_, _)
RenderCells(fb, k) ==
    IF k >= fb.width * fb.height THEN <<>>
    ELSE RenderCell(fb, k % fb.width, k \div fb.width) \o RenderCells(fb, k + 1)

\* the calls FrameBuffer.render makes, in order
RenderCalls(fb) == IF fb.dirty_regions = {} THEN <<>> ELSE RenderCells(fb, 0)

\* the regions and contents handed to draw_content: the default region of a
\* Widget, which is empty, and regions on and across the frame's edge
DrawRegions == {Region(0, 0, 0, 0), Region(1, 0, 1, 2)}

DrawContents == {<<<<"X">>, <<"X">>>>}

\* the cells handed to draw_char, the second off the largest frame
DrawPoints == {<<0, 0>>, <<MaxWidth, 0>>}

FrameOp(op, calls) == [op |-> op, calls |-> calls]

InitFrame ==
    /\ termSize \in Sizes
    /\ rend = NewRenderer(termSize)
    /\ screen = BlankFrame(termSize[1], termSize[2])
    /\ rendOp = FrameOp("none", <<>>)

FrameResize ==
    \E size \in Sizes :
        /\ rend' = [rend EXCEPT !.frame_buffer = resize(rend.frame_buffer, size[1], size[2])]
        /\ rendOp' = FrameOp("resize", <<>>)
        /\ UNCHANGED <<termSize, screen>>

FrameClear ==
    /\ rend' = [rend EXCEPT !.frame_buffer = clear(rend.frame_buffer)]
    /\ rendOp' = FrameOp("clear", <<>>)
    /\ UNCHANGED <<termSize, screen>>

FrameDrawChar ==
    \E c \in DrawPoints, char \in Glyphs :
        /\ rend' = [rend EXCEPT !.frame_buffer =
                       draw_char(rend.frame_buffer, c[1], c[2], char)]
        /\ rendOp' = FrameOp("draw_char", <<>>)
        /\ UNCHANGED <<termSize, screen>>

FrameDrawContent ==
    \E region \in DrawRegions, content \in DrawContents :
        /\ rend' = [rend EXCEPT !.frame_buffer =
                       draw_content(rend.frame_buffer, region, content)]
        /\ rendOp' = FrameOp("draw_content", <<>>)
        /\ UNCHANGED <<termSize, screen>>

FrameRender ==
    /\ rend' = [rend EXCEPT !.frame_buffer = render(rend.frame_buffer).fb]
    /\ screen' = [c \in DOMAIN screen |->
                     IF c \in render(rend.frame_buffer).writes
                     THEN rend.frame_buffer.current_frame[c]
                     ELSE screen[c]]
    /\ rendOp' = FrameOp("render", RenderCalls(rend.frame_buffer))
    /\ termSize' = termSize

NextFrame ==
    \/ FrameResize /\ UNCHANGED <<parserVars, domVars, listVars, ioVars>>
    \/ FrameClear /\ UNCHANGED <<parserVars, domVars, listVars, ioVars>>
    \/ FrameDrawChar /\ UNCHANGED <<parserVars, domVars, listVars, ioVars>>
    \/ FrameDrawContent /\ UNCHANGED <<parserVars, domVars, listVars, ioVars>>
    \/ FrameRender /\ UNCHANGED <<parserVars, domVars, listVars, ioVars>>

(***************************************************************************)
(* The I/O driver (termui/drivers/_driver.py, with the Unix setup and      *)
(* teardown of termui/drivers/_unix_driver.py), its reader and writer      *)
(* threads and the threads that call start() and stop().                   *)
(*                                                                         *)
(* A call of start() or stop() is a sequence of steps, one per statement   *)
(* that reads or writes a field another thread can touch; pc[t].at is the  *)
(* statement thread t is about to run.  Threads are numbers: the main      *)
(* thread, one more application thread, and the reader threads in the      *)
(* order in which start() created them.                                    *)
(***************************************************************************)
MainThread == 1

AuxThread == 2

AppThreads == {MainThread, AuxThread}

\* how many start() calls may get past the _running test
MaxStarts == 1

\* how many times the reader reads input
MaxReads == 1

\* how many texts the application threads pass to write()
MaxWrites == 1

Tids == 1..(2 + MaxStarts)

\* the thread number of the i-th reader thread, and back
ReaderTid(i) == 2 + i

ReaderIdx(t) == t - 2

\* Driver.__init__; readers and writers hold every Thread object created,
\* stopped the event loops asked to stop, and starts, teardowns, writes
\* count what has happened
NewDriver ==
    [running |-> FALSE, thread |-> 0, writer |-> 0, loop |-> 0,
     saved |-> "none", readers |-> <<>>, writers |-> <<>>, stopped |-> {},
     starts |-> 0, teardowns |-> 0, writes |-> 0, exited |-> FALSE]

At(at) == [at |-> at, w |-> 0]

InitDriver ==
    /\ drv = NewDriver
    /\ tty = [attrs |-> "cooked", out |-> {}, reads |-> 0]
    /\ pc = [t \in Tids |-> At("idle")]

\* Driver.write for successive calls: each text is put on the queue of the
\* current writer thread, and dropped when there is none
write(d, texts) ==
    IF d.writer = 0 THEN d
    ELSE [d EXCEPT !.writers[d.writer].queue = @ \o texts]

IsAliveReader(t) ==
    /\ t \notin AppThreads
    /\ ReaderIdx(t) <= Len(drv.readers)
    /\ drv.readers[ReaderIdx(t)] = "alive"

\* start() calls that have not yet created their reader thread
StartsInFlight ==
    Cardinality({t \in Tids : pc[t].at \in {"start", "start_set", "start_thread"}})

\* an application thread calls driver.start()
CallStart(t) ==
    /\ ~drv.exited
    /\ t \in AppThreads
    /\ pc[t].at = "idle"
    /\ Len(drv.readers) + StartsInFlight < MaxStarts
    /\ pc' = [pc EXCEPT ![t] = At("start")]
    /\ UNCHANGED <<drv, tty>>

\* a thread calls driver.stop(): an application thread, or the reader
\* thread when a key it has read triggers the keybind bound to App.quit
CallStop(t) ==
    /\ ~drv.exited
    /\ pc[t].at = "idle"
    /\ t \in AppThreads \/ (IsAliveReader(t) /\ t \notin drv.stopped)
    /\ pc' = [pc EXCEPT ![t] = At("stop")]
    /\ UNCHANGED <<drv, tty>>

\* the next statement of Driver.start in thread t
StartStep(t) ==
    /\ ~drv.exited
    /\ \/ /\ pc[t].at = "start"
          /\ pc' = [pc EXCEPT ![t] =
                        At(IF drv.running THEN "idle" ELSE "start_set")]
          /\ UNCHANGED <<drv, tty>>
       \/ /\ pc[t].at = "start_set"
          /\ drv' = [drv EXCEPT !.running = TRUE, !.starts = drv.starts + 1]
          /\ pc' = [pc EXCEPT ![t] = At("start_thread")]
          /\ UNCHANGED tty
       \/ /\ pc[t].at = "start_thread"
          /\ drv' = [drv EXCEPT !.readers = Append(drv.readers, "alive"),
                                !.thread = ReaderTid(Len(drv.readers) + 1),
                                !.loop = ReaderTid(Len(drv.readers) + 1)]
          /\ pc' = [pc EXCEPT ![t] = At("start_writer")]
          /\ UNCHANGED tty
       \/ /\ pc[t].at = "start_writer"
          /\ drv' = [drv EXCEPT
                        !.writers = Append(drv.writers,
                                           [alive |-> TRUE, queue |-> <<>>]),
                        !.writer = Len(drv.writers) + 1]
          /\ pc' = [pc EXCEPT ![t] = At("start_setup")]
          /\ UNCHANGED tty
       \/ /\ pc[t].at = "start_setup"
          /\ drv' = write([drv EXCEPT !.saved = tty.attrs],
                          <<"?1000h", "?1003h", "?1015h">>)
          /\ tty' = [tty EXCEPT !.attrs = "raw"]
          /\ pc' = [pc EXCEPT ![t] = At("idle")]

\* UnixDriver.teardown followed by the screen-clearing write and the
\* request to stop the reader's event loop
teardown(d) ==
    write([d EXCEPT !.teardowns = d.teardowns + 1,
                    !.stopped = IF d.loop = 0 THEN d.stopped
                                ELSE d.stopped \cup {d.loop}],
          <<"?1000l", "?1003l", "?1015l", "clear">>)

\* the next statement of Driver.stop in thread t
StopStep(t) ==
    /\ ~drv.exited
    /\ \/ /\ pc[t].at = "stop"
          /\ pc' = [pc EXCEPT ![t] =
                        At(IF drv.running THEN "stop_set" ELSE "returned")]
          /\ UNCHANGED <<drv, tty>>
       \/ /\ pc[t].at = "stop_set"
          /\ drv' = [drv EXCEPT !.running = FALSE]
          /\ pc' = [pc EXCEPT ![t] = At("stop_teardown")]
          /\ UNCHANGED tty
       \/ /\ pc[t].at = "stop_teardown"
          /\ drv' = teardown(drv)
          /\ tty' = [tty EXCEPT !.attrs = IF drv.saved = "none" THEN tty.attrs
                                          ELSE drv.saved]
          /\ pc' = [pc EXCEPT ![t] = At("stop_join")]
       \/ /\ pc[t].at = "stop_join"
          /\ drv.thread = t
          \* joining the current thread raises RuntimeError, which ends
          \* stop(); _put_event catches it
          /\ pc' = [pc EXCEPT ![t] = At("idle")]
          /\ UNCHANGED <<drv, tty>>
       \/ /\ pc[t].at = "stop_join"
          /\ drv.thread # t
          \* join(timeout=1.0) ends when the reader has, or, if the reader
          \* is busy in a call of its own, when the timeout has passed
          /\ IF drv.thread = 0 THEN TRUE
             ELSE drv.readers[ReaderIdx(drv.thread)] = "done"
                     \/ pc[drv.thread].at # "idle"
          /\ pc' = [pc EXCEPT ![t] =
                        IF drv.writer = 0 THEN At("returned")
                        ELSE [at |-> "stop_wjoin", w |-> drv.writer]]
          /\ drv' = write(drv, <<"None">>)
          /\ UNCHANGED tty
       \/ /\ pc[t].at = "stop_wjoin"
          /\ ~drv.writers[pc[t].w].alive
          /\ pc' = [pc EXCEPT ![t] = At("returned")]
          /\ UNCHANGED <<drv, tty>>

\* stop() has returned to a caller that goes on running
Return(t) ==
    /\ ~drv.exited
    /\ t = AuxThread
    /\ pc[t].at = "returned"
    /\ pc' = [pc EXCEPT ![t] = At("idle")]
    /\ UNCHANGED <<drv, tty>>

\* stop() has returned to App.quit, which ends the process with os._exit(0)
quit(t) ==
    /\ ~drv.exited
    /\ t # AuxThread
    /\ pc[t].at = "returned"
    /\ drv' = [drv EXCEPT !.exited = TRUE]
    /\ UNCHANGED <<tty, pc>>

\* an application thread passes a text to driver.write()
CallWrite(t) ==
    /\ ~drv.exited
    /\ t \in AppThreads
    /\ pc[t].at = "idle"
    /\ drv.writes < MaxWrites
    /\ drv' = write([drv EXCEPT !.writes = drv.writes + 1], <<"text">>)
    /\ UNCHANGED <<tty, pc>>

\* the reader thread reads a character of input
ReaderRead(t) ==
    /\ ~drv.exited
    /\ IsAliveReader(t)
    /\ pc[t].at = "idle"
    /\ t \notin drv.stopped
    /\ tty.reads < MaxReads
    /\ tty' = [tty EXCEPT !.reads = tty.reads + 1]
    /\ UNCHANGED <<drv, pc>>

\* the reader's event loop has been stopped: run_forever returns and the
\* thread ends
ReaderExit(t) ==
    /\ ~drv.exited
    /\ IsAliveReader(t)
    /\ pc[t].at = "idle"
    /\ t \in drv.stopped
    /\ drv' = [drv EXCEPT !.readers[ReaderIdx(t)] = "done"]
    /\ UNCHANGED <<tty, pc>>

\* one turn of WriterThread.run in the w-th writer thread: take the next
\* item; None ends the thread, a text is written to the file
WriterRun(w) ==
    /\ ~drv.exited
    /\ w \in 1..Len(drv.writers)
    /\ drv.writers[w].alive
    /\ drv.writers[w].queue # <<>>
    /\ drv' = [drv EXCEPT !.writers[w] =
                  [alive |-> Head(drv.writers[w].queue) # "None",
                   queue |-> Tail(drv.writers[w].queue)]]
    /\ tty' = [tty EXCEPT !.out =
                  IF Head(drv.writers[w].queue) = "None" THEN tty.out
                  ELSE tty.out \cup {Head(drv.writers[w].queue)}]
    /\ UNCHANGED pc

NextDriver ==
    \/ (\E t \in Tids : CallStart(t)) /\ UNCHANGED <<coreVars, evq, wr, ux, extVars>>
    \/ (\E t \in Tids : CallStop(t)) /\ UNCHANGED <<coreVars, evq, wr, ux, extVars>>
    \/ (\E t \in Tids : StartStep(t)) /\ UNCHANGED <<coreVars, evq, wr, ux, extVars>>
    \/ (\E t \in Tids : StopStep(t)) /\ UNCHANGED <<coreVars, evq, wr, ux, extVars>>
    \/ (\E t \in Tids : Return(t)) /\ UNCHANGED <<coreVars, evq, wr, ux, extVars>>
    \/ (\E t \in Tids : quit(t)) /\ UNCHANGED <<coreVars, evq, wr, ux, extVars>>
    \/ (\E t \in Tids : CallWrite(t)) /\ UNCHANGED <<coreVars, evq, wr, ux, extVars>>
    \/ (\E t \in Tids : ReaderRead(t)) /\ UNCHANGED <<coreVars, evq, wr, ux, extVars>>
    \/ (\E t \in Tids : ReaderExit(t)) /\ UNCHANGED <<coreVars, evq, wr, ux, extVars>>
    \/ (\E w \in 1..MaxStarts : WriterRun(w))
          /\ UNCHANGED <<coreVars, evq, wr, ux, extVars>>

(***************************************************************************)
(* Event delivery: the reader thread hands each event to                   *)
(* Driver._put_event, which schedules a put on the driver's event loop;    *)
(* the loop runs the scheduled puts in the order they were scheduled and   *)
(* App._input_loop takes the events with Driver.get_event.                 *)
(***************************************************************************)
\* how many events the reader produces
MaxEvents == 4

EventKinds == {"key", "mouse"}

\* scheduled: the puts handed to the loop and not yet run; event_queue:
\* Driver.event_queue; enqueued: every event a put was scheduled for;
\* delivered: the events the input loop has dispatched
NewEvents ==
    [produced |-> 0, scheduled |-> <<>>, event_queue |-> <<>>,
     enqueued |-> <<>>, delivered |-> <<>>]

InitEvents == evq = NewEvents

put_event_forwarding_all(e, event, loop_running, keybind_triggered) ==
    IF ~loop_running
    THEN [e EXCEPT !.produced = e.produced + 1]
    ELSE [e EXCEPT !.produced = e.produced + 1,
                   !.scheduled = Append(e.scheduled, event),
                   !.enqueued = Append(e.enqueued, event)]

\* Driver._put_event: nothing happens unless the loop is running; a key
\* event that triggers a keybind is consumed by it
put_event(e, event, loop_running, keybind_triggered) ==
    IF ~loop_running \/ (event.kind = "key" /\ keybind_triggered)
    THEN [e EXCEPT !.produced = e.produced + 1]
    ELSE [e EXCEPT !.produced = e.produced + 1,
                   !.scheduled = Append(e.scheduled, event),
                   !.enqueued = Append(e.enqueued, event)]

\* the loop runs the oldest scheduled call: event_queue.put(event)
run_scheduled(e) ==
    [e EXCEPT !.scheduled = Tail(e.scheduled),
              !.event_queue = Append(e.event_queue, Head(e.scheduled))]

get_event_newest_first(e) ==
    [e EXCEPT !.event_queue = SubSeq(e.event_queue, 1, Len(e.event_queue) - 1),
              !.delivered = Append(e.delivered,
                                   e.event_queue[Len(e.event_queue)])]

\* one turn of App._input_loop: get_event takes the event at the head of
\* the queue and the loop dispatches it
get_event(e) ==
    [e EXCEPT !.event_queue = Tail(e.event_queue),
              !.delivered = Append(e.delivered, Head(e.event_queue))]

PutEvent ==
    /\ evq.produced < MaxEvents
    /\ \E kind \in EventKinds, loop_running \in BOOLEAN,
          keybind_triggered \in BOOLEAN :
          evq' = put_event(evq, [n |-> evq.produced + 1, kind |-> kind],
                           loop_running, keybind_triggered)

RunScheduled ==
    /\ evq.scheduled # <<>>
    /\ evq' = run_scheduled(evq)

GetEvent ==
    /\ evq.event_queue # <<>>
    /\ evq' = get_event(evq)

NextEvents ==
    \/ PutEvent /\ UNCHANGED <<coreVars, drvVars, wr, ux, extVars>>
    \/ RunScheduled /\ UNCHANGED <<coreVars, drvVars, wr, ux, extVars>>
    \/ GetEvent /\ UNCHANGED <<coreVars, drvVars, wr, ux, extVars>>

(***************************************************************************)
(* Output: the writer thread (termui/drivers/_writer_thread.py) beside     *)
(* two threads that produce output, a render pass (FrameBuffer.render in   *)
(* termui/renderer.py) and a thread that switches modes (UnixDriver.setup  *)
(* in termui/drivers/_unix_driver.py).  A byte is [g, n]: the n-th byte    *)
(* that output g produces.                                                 *)
(***************************************************************************)
MAX_QUEUED_WRITES == 64

\* how many cells the render pass repaints
MaxCells == 2

\* how many mode sequences the other thread writes
MaxModes == 2

\* queue, data and wat belong to the writer thread (data is what is left
\* of the text it is writing, wat its next statement); buffer is the
\* buffer of sys.stdout, term what the terminal has received, issued
\* every byte passed to an output call, in the order of the calls; cells
\* and mode_writes count the steps the two producers have made
NewWrites ==
    [queue |-> <<>>, data |-> <<>>, wat |-> "get", buffer |-> <<>>,
     term |-> <<>>, issued |-> <<>>, cells |-> 0, at_glyph |-> FALSE,
     flushed |-> FALSE, mode_writes |-> 0]

InitWrites == wr = NewWrites

\* the next two bytes of output g
Text(w, g) ==
    <<[g |-> g, n |-> Len(SelectSeq(w.issued, LAMBDA b : b.g = g)) + 1],
      [g |-> g, n |-> Len(SelectSeq(w.issued, LAMBDA b : b.g = g)) + 2]>>

\* WriterThread.write, reached through Driver.write: the text is put on
\* the queue
WriterThread_write(w, text) ==
    [w EXCEPT !.queue = Append(w.queue, text), !.issued = w.issued \o text]

\* sys.stdout.write: the text goes to the buffer of the file object
stdout_write(w, text) ==
    [w EXCEPT !.buffer = w.buffer \o text, !.issued = w.issued \o text]

\* file.flush(): the buffered bytes go to the terminal
file_flush(w) == [w EXCEPT !.term = w.term \o w.buffer, !.buffer = <<>>]

\* the next statement of FrameBuffer.render: for each changed cell
\* cursor.move, which calls Driver.write, then sys.stdout.write of the
\* glyph; after the last cell sys.stdout.flush()
RenderStep ==
    \/ /\ wr.cells < MaxCells
       /\ ~wr.at_glyph
       /\ Len(wr.queue) < MAX_QUEUED_WRITES
       /\ wr' = [WriterThread_write(wr, Text(wr, "render")) EXCEPT
                    !.at_glyph = TRUE]
    \/ /\ wr.at_glyph
       /\ wr' = [stdout_write(wr, <<Text(wr, "render")[1]>>) EXCEPT
                    !.at_glyph = FALSE, !.cells = wr.cells + 1]
    \/ /\ wr.cells = MaxCells
       /\ ~wr.flushed
       /\ wr' = [file_flush(wr) EXCEPT !.flushed = TRUE]

\* another thread writes a mode sequence with Driver.write
ModeStep ==
    /\ wr.mode_writes < MaxModes
    /\ Len(wr.queue) < MAX_QUEUED_WRITES
    /\ wr' = [WriterThread_write(wr, Text(wr, "mode")) EXCEPT
                 !.mode_writes = wr.mode_writes + 1]

\* the next statement of WriterThread.run: get a text; write some of the
\* bytes that are left (os.write may write fewer than it is given) until
\* none is left; flush the file if the queue is empty
WriterStep ==
    \/ /\ wr.wat = "get"
       /\ wr.queue # <<>>
       /\ wr' = [wr EXCEPT !.data = Head(wr.queue), !.queue = Tail(wr.queue),
                           !.wat = "write"]
    \/ /\ wr.wat = "write"
       /\ \E written \in 1..Len(wr.data) :
             wr' = [wr EXCEPT
                       !.term = wr.term \o SubSeq(wr.data, 1, written),
                       !.data = SubSeq(wr.data, written + 1, Len(wr.data)),
                       !.wat = IF written < Len(wr.data) THEN "write"
                               ELSE "flush"]
    \/ /\ wr.wat = "flush"
       /\ wr' = [(IF wr.queue = <<>> THEN file_flush(wr) ELSE wr) EXCEPT
                    !.wat = "get"]

NextWrites ==
    \/ RenderStep /\ UNCHANGED <<coreVars, drvVars, evq, ux, extVars>>
    \/ ModeStep /\ UNCHANGED <<coreVars, drvVars, evq, ux, extVars>>
    \/ WriterStep /\ UNCHANGED <<coreVars, drvVars, evq, ux, extVars>>

(***************************************************************************)
(* The application mode of the Unix terminal driver                        *)
(* (termui/input/_unix_driver.py).  A mode sequence takes effect on the    *)
(* terminal when it is written: modes is the set of private modes that are *)
(* set, "25" standing for the hidden cursor ("\x1b[?25l"), "7" for line    *)
(* wrap switched off ("\x1b[?7l") and "u" for the keyboard flags pushed    *)
(* by "\x1b[>1u".                                                          *)
(***************************************************************************)
\* how many times application mode may be started
MaxCycles == 2

MouseModes == {"1000", "1003", "1015", "1006"}

\* UnixDriver.__init__, before application mode; supports says whether the
\* terminal answers the in-band resize query with "supported"
NewUnixDriver(mouse, supports) ==
    [at |-> "idle", mouse |-> mouse, supports |-> supports,
     in_band_window_resize |-> FALSE, mouse_pixels |-> FALSE,
     attrs |-> "cooked", attrs_before |-> "none", key_thread |-> FALSE,
     queried |-> FALSE, modes |-> {}, cycles |-> 0,
     on_terminal_resize |-> FALSE, resizes |-> <<>>]

InitUnix == \E mouse \in BOOLEAN, supports \in BOOLEAN :
                ux = NewUnixDriver(mouse, supports)

enable_mouse_support(u) ==
    IF ~u.mouse THEN u ELSE [u EXCEPT !.modes = u.modes \cup MouseModes]

disable_mouse_support(u) ==
    IF ~u.mouse THEN u ELSE [u EXCEPT !.modes = u.modes \ MouseModes]

enable_mouse_pixels(u) ==
    IF ~u.mouse THEN u
    ELSE [u EXCEPT !.modes = u.modes \cup {"1016"}, !.mouse_pixels = TRUE]

disable_in_band_window_resize(u) ==
    IF u.in_band_window_resize THEN [u EXCEPT !.modes = u.modes \ {"2048"}]
    ELSE u

\* start_application_mode up to the start of the input thread: alternate
\* screen, mouse reporting, raw attributes, hidden cursor, focus reporting,
\* keyboard flags
start_application_mode(u) ==
    [enable_mouse_support(u) EXCEPT
        !.modes = enable_mouse_support(u).modes \cup {"1049", "25", "1004", "u"},
        !.attrs_before = u.attrs,
        !.attrs = "raw",
        !.key_thread = TRUE,
        !.on_terminal_resize = TRUE,
        !.cycles = u.cycles + 1,
        !.at = "starting"]

\* the rest of start_application_mode, which runs beside the input thread:
\* the in-band resize query, bracketed paste, no line wrap, mouse reporting
finish_application_mode(u) ==
    [enable_mouse_support(u) EXCEPT
        !.modes = enable_mouse_support(u).modes \cup {"2004", "7"},
        !.queried = TRUE,
        !.at = "started"]

\* process_message for the InBandWindowResize report the terminal sends in
\* answer to the query; it reports the mode as enabled when it is set
process_message(u) ==
    IF ~u.supports THEN [u EXCEPT !.queried = FALSE]
    ELSE enable_mouse_pixels(
             [u EXCEPT !.queried = FALSE,
                       !.in_band_window_resize = TRUE,
                       !.modes = u.modes \cup {"2048"}])

\* disable_input: mouse reporting off, then the input thread is joined
disable_input(u) ==
    [disable_mouse_support(u) EXCEPT !.key_thread = FALSE,
                                     !.on_terminal_resize = FALSE]

StartApplicationMode ==
    /\ ux.at \in {"idle", "stopped"}
    /\ ux.cycles < MaxCycles
    /\ ux' = start_application_mode(ux)

FinishApplicationMode ==
    /\ ux.at = "starting"
    /\ ux' = finish_application_mode(ux)

\* the input thread reads the terminal's report and processes it
ProcessMessage ==
    /\ ux.key_thread
    /\ ux.queried
    /\ ux' = process_message(ux)

\* the next part of stop_application_mode
StopApplicationMode ==
    \/ /\ ux.at = "started"
       /\ ux' = [disable_in_band_window_resize(ux) EXCEPT
                    !.modes = disable_in_band_window_resize(ux).modes
                                  \ {"2004", "7"},
                    !.at = "stop_input"]
    \/ /\ ux.at = "stop_input"
       /\ ux' = [disable_input(ux) EXCEPT !.at = "stop_attrs"]
    \/ /\ ux.at = "stop_attrs"
       /\ ux' = [ux EXCEPT !.attrs = IF ux.attrs_before = "none" THEN ux.attrs
                                     ELSE ux.attrs_before,
                           !.at = "stop_rest"]
    \/ /\ ux.at = "stop_rest"
       /\ ux' = [ux EXCEPT !.modes = ux.modes \ {"u", "1049", "25", "1004"},
                           !.at = "stopped"]

\* how many Resize events the driver sends
MaxResizes == 2

\* the in-band resize report "\x1b[48;h;w;ph;pwt" of a terminal that has
\* mode 2048 set: the parser makes a Resize of it, which process_message
\* passes on to send_message
ResizeReport ==
    /\ ux.key_thread
    /\ "2048" \in ux.modes
    /\ Len(ux.resizes) < MaxResizes
    /\ ux' = [ux EXCEPT !.resizes = Append(ux.resizes, "report")]

\* SIGWINCH: on_terminal_resize sends the size unless in-band resize is on
Sigwinch ==
    /\ ux.on_terminal_resize
    /\ Len(ux.resizes) < MaxResizes
    /\ ux' = IF ux.in_band_window_resize THEN ux
             ELSE [ux EXCEPT !.resizes = Append(ux.resizes, "sigwinch")]

NextUnix ==
    \/ StartApplicationMode /\ UNCHANGED <<coreVars, drvVars, evq, wr, extVars>>
    \/ FinishApplicationMode /\ UNCHANGED <<coreVars, drvVars, evq, wr, extVars>>
    \/ ProcessMessage /\ UNCHANGED <<coreVars, drvVars, evq, wr, extVars>>
    \/ StopApplicationMode /\ UNCHANGED <<coreVars, drvVars, evq, wr, extVars>>

\* the driver on a terminal that resizes
NextResize ==
    \/ StartApplicationMode /\ UNCHANGED <<coreVars, drvVars, evq, wr, extVars>>
    \/ FinishApplicationMode /\ UNCHANGED <<coreVars, drvVars, evq, wr, extVars>>
    \/ ProcessMessage /\ UNCHANGED <<coreVars, drvVars, evq, wr, extVars>>
    \/ StopApplicationMode /\ UNCHANGED <<coreVars, drvVars, evq, wr, extVars>>
    \/ ResizeReport /\ UNCHANGED <<coreVars, drvVars, evq, wr, extVars>>
    \/ Sigwinch /\ UNCHANGED <<coreVars, drvVars, evq, wr, extVars>>

\* the terminal may have been left with in-band resize reports switched on
\* by the program that used it before
InitResize ==
    \E mouse \in BOOLEAN, supports \in BOOLEAN, modes \in {{}, {"2048"}} :
        /\ modes # {} => supports
        /\ ux = [NewUnixDriver(mouse, supports) EXCEPT !.modes = modes]

(***************************************************************************)
(* Keybinds (termui/keybind.py, termui/drivers/_keybind_manager.py).  A    *)
(* key string is the sequence of its characters, so that "ctrl+c" is       *)
(* <<"c","t","r","l","+","c">> and Keybind.parse_keybind splits it.        *)
(***************************************************************************)
KeyCtrl == <<"c", "t", "r", "l">>
KeyC == <<"c">>
KeyQ == <<"q">>
KeyA == <<"a">>
KeyCtrlC == KeyCtrl \o <<"+">> \o KeyC

\* the key names of the Key events the reader hands over
KeyStrings == {KeyCtrl, KeyC, KeyQ, KeyA, KeyCtrlC}

\* the keys of handle_key_event's modifier test
ModifierKeys == {KeyCtrl, <<"s", "h", "i", "f", "t">>, <<"a", "l", "t">>,
                 <<"m", "e", "t", "a">>}

Keybind(key, action) == [key |-> key, action |-> action]

\* App.__init__: the keybind every application starts with
DefaultKeybind == Keybind(KeyQ, "quit")

\* what App._run_async registers: the default and the application's own
KeybindLists ==
    {<<DefaultKeybind>>,
     <<DefaultKeybind, Keybind(KeyCtrlC, "copy")>>,
     <<DefaultKeybind, Keybind(KeyCtrlC, "copy"), Keybind(KeyC, "clear")>>,
     <<DefaultKeybind, Keybind(KeyC, "clear"), Keybind(KeyCtrlC, "copy")>>}

\* Keybind.parse_keybind: the keys of self.key.split("+")
parse_keybind(keybind) == SplitOn(keybind.key, "+")

matches_subset(keybind, pressed_keys) ==
    Range(parse_keybind(keybind)) \subseteq pressed_keys

\* Keybind.matches
matches(keybind, pressed_keys) ==
    Range(parse_keybind(keybind)) = pressed_keys

\* KeybindManager.__init__ and the keybinds registered before the loops
\* start; called: the actions called so far, each with the number of the
\* event it was called for and the thread that called it
NewKeybindManager(keybinds) ==
    [keybinds |-> keybinds, pressed_keys |-> {}, active_modifiers |-> {},
     called |-> <<>>]

\* the index of the first keybind of the list that matches, 0 for none
FirstMatch(keybinds, pressed_keys) ==
    IF \E i \in 1..Len(keybinds) : matches(keybinds[i], pressed_keys)
    THEN CHOOSE i \in 1..Len(keybinds) :
             /\ matches(keybinds[i], pressed_keys)
             /\ \A j \in 1..(i - 1) : ~matches(keybinds[j], pressed_keys)
    ELSE 0

\* the manager after keybind.action() and _pressed_keys.clear()
Trigger(k, i, event, thread) ==
    [k EXCEPT !.pressed_keys = {},
              !.called = Append(k.called,
                                [n |-> event.n, action |-> k.keybinds[i].action,
                                 pressed |-> k.pressed_keys \cup {event.key}
                                                \cup k.active_modifiers,
                                 thread |-> thread])]

\* KeybindManager.handle_key_event on the given thread:
\* [kbm, triggered (the value returned)]
handle_key_event(k, event, thread) ==
    IF event.key \in ModifierKeys
    THEN [kbm |-> [k EXCEPT !.active_modifiers = k.active_modifiers \cup {event.key}],
          triggered |-> FALSE]
    ELSE IF FirstMatch(k.keybinds, k.pressed_keys \cup {event.key}
                                       \cup k.active_modifiers) # 0
    THEN [kbm |-> Trigger(k, FirstMatch(k.keybinds,
                                        k.pressed_keys \cup {event.key}
                                            \cup k.active_modifiers),
                          event, thread),
          triggered |-> TRUE]
    ELSE [kbm |-> [k EXCEPT !.pressed_keys = k.pressed_keys \cup {event.key}],
          triggered |-> FALSE]

InitKeys == \E keybinds \in KeybindLists : kbm = NewKeybindManager(keybinds)

\* Driver._put_event for a Key event, called by the reader thread from
\* _process_parser_events: the keybind manager sees the key only while the
\* loop is running
PutKeyEvent ==
    /\ evq.produced < MaxEvents
    /\ \E key \in KeyStrings, loop_running \in BOOLEAN :
          \E event \in {[n |-> evq.produced + 1, kind |-> "key", key |-> key]} :
             \E r \in {IF loop_running
                       THEN handle_key_event(kbm, event, ReaderTid(1))
                       ELSE [kbm |-> kbm, triggered |-> FALSE]} :
                /\ kbm' = r.kbm
                /\ evq' = put_event(evq, event, loop_running, r.triggered)

\* Driver._put_event for an event that is no Key
PutOtherEvent ==
    /\ evq.produced < MaxEvents
    /\ \E loop_running \in BOOLEAN :
          evq' = put_event(evq, [n |-> evq.produced + 1, kind |-> "mouse"],
                           loop_running, FALSE)
    /\ kbm' = kbm

NextKeys ==
    \/ PutKeyEvent /\ UNCHANGED <<coreVars, drvVars, wr, ux, app, inp, hit, geo, win>>
    \/ PutOtherEvent /\ UNCHANGED <<coreVars, drvVars, wr, ux, app, inp, hit, geo, win>>
    \/ RunScheduled /\ UNCHANGED <<coreVars, drvVars, wr, ux, extVars>>
    \/ GetEvent /\ UNCHANGED <<coreVars, drvVars, wr, ux, extVars>>

(***************************************************************************)
(* The application (termui/app.py): App._run_async builds the screens,     *)
(* starts the driver and runs the input, update and render loops as three  *)
(* tasks until the first of them ends; App.quit stops the driver and ends  *)
(* the process.  steps lists what the shutdown has done so far.            *)
(***************************************************************************)
AppTasks == {"input", "update", "render"}

\* how many events the reader produces while the application runs
MaxAppEvents == 2

\* the events the driver's parser makes (termui/drivers/_parser.py)
AppEventKinds == {"key", "mouse_move", "mouse_down", "resize", "cursor_position"}

\* isinstance(event, events.InputEvent)
IsInputEvent(event) == event.kind \in {"key", "mouse_move", "mouse_down"}

\* App.__init__
NewApp ==
    [at |-> "new", running |-> FALSE, driver_running |-> FALSE,
     current_screen |-> FALSE, tasks |-> [t \in AppTasks |-> "none"],
     pending |-> {}, steps |-> <<>>, taken |-> <<>>, forwarded |-> <<>>]

InitApp == app = NewApp

\* the body of App._input_loop for the event get_event returned: a
\* MouseMove ends in _update_mouse_over, where screen.get_widget_at raises
\* AttributeError, which the loop logs
_input_loop(a, event) ==
    IF a.current_screen /\ IsInputEvent(event) /\ event.kind # "mouse_move"
    THEN [a EXCEPT !.taken = Append(a.taken, [n |-> event.n, screen |-> TRUE]),
                   !.forwarded = Append(a.forwarded, event.n)]
    ELSE [a EXCEPT !.taken = Append(a.taken,
                                    [n |-> event.n, screen |-> a.current_screen])]

\* Driver.stop as App.quit calls it: it returns at once when the driver is
\* not running
driver_stop(a) ==
    IF a.driver_running
    THEN [a EXCEPT !.driver_running = FALSE, !.steps = Append(a.steps, "stop")]
    ELSE a

\* self.build(): the application's own code, which may raise
Build ==
    /\ app.at = "new"
    /\ \E raises \in BOOLEAN :
          app' = [app EXCEPT !.at = IF raises THEN "quit" ELSE "built"]
    /\ evq' = evq

\* driver.start(), the keybinds, _running = True and the three tasks
StartLoops ==
    /\ app.at = "built"
    /\ app' = [app EXCEPT !.at = "wait", !.running = TRUE,
                          !.driver_running = TRUE,
                          !.tasks = [t \in AppTasks |-> "active"]]
    /\ evq' = evq

\* the reader thread hands an event to Driver._put_event
PutAppEvent ==
    /\ app.driver_running
    /\ evq.produced < MaxAppEvents
    /\ \E kind \in AppEventKinds :
          evq' = put_event(evq, [n |-> evq.produced + 1, kind |-> kind],
                           TRUE, FALSE)
    /\ app' = app

\* the driver's loop runs a scheduled event_queue.put
AppRunScheduled ==
    /\ app.at \in {"wait", "cancel"}
    /\ RunScheduled
    /\ app' = app

\* one turn of App._input_loop
InputTurn ==
    /\ app.tasks["input"] = "active"
    /\ app.at \in {"wait", "cancel"}
    /\ evq.event_queue # <<>>
    /\ evq' = get_event(evq)
    /\ app' = _input_loop(app, Head(evq.event_queue))

\* one turn of App._render_loop: show_screen sets current_screen and then
\* fails in mount(), which the loop logs
RenderTurn ==
    /\ app.tasks["render"] = "active"
    /\ app.at \in {"wait", "cancel"}
    /\ app.running
    /\ ~app.current_screen
    /\ app' = [app EXCEPT !.current_screen = TRUE]
    /\ evq' = evq

\* the key "q" on the reader thread: its keybind calls App.quit there;
\* Driver.stop tears down and fails to join its own thread, so os._exit is
\* not reached on this thread
KeybindQuit ==
    /\ app.driver_running
    /\ app.tasks["input"] = "active"
    /\ app' = [driver_stop(app) EXCEPT !.running = FALSE]
    /\ evq' = evq

\* a loop finds _running False and returns
TaskEnds ==
    /\ app.at \in {"wait", "cancel"}
    /\ ~app.running
    /\ \E t \in AppTasks :
          /\ app.tasks[t] = "active"
          /\ app' = [app EXCEPT !.tasks[t] = "done"]
    /\ evq' = evq

\* asyncio.wait(..., FIRST_COMPLETED) returns the tasks that are not done
WaitReturns ==
    /\ app.at = "wait"
    /\ \E t \in AppTasks : app.tasks[t] = "done"
    /\ app' = [app EXCEPT !.at = "cancel",
                          !.pending = {t \in AppTasks : app.tasks[t] # "done"}]
    /\ evq' = evq

\* for task in pending: task.cancel()
CancelTask ==
    /\ app.at = "cancel"
    /\ \A t \in AppTasks : app.tasks[t] # "cancelling"
    /\ \E t \in app.pending :
          app' = [app EXCEPT !.tasks[t] = IF app.tasks[t] = "active"
                                          THEN "cancelling" ELSE app.tasks[t],
                             !.pending = app.pending \ {t},
                             !.steps = Append(app.steps, "cancel")]
    /\ evq' = evq

\* ... await task
AwaitTask ==
    /\ app.at = "cancel"
    /\ \/ \E t \in AppTasks :
             /\ app.tasks[t] = "cancelling"
             /\ app' = [app EXCEPT !.tasks[t] = "cancelled",
                                   !.steps = Append(app.steps, "awaited")]
       \/ /\ app.pending = {}
          /\ \A t \in AppTasks : app.tasks[t] # "cancelling"
          /\ app' = [app EXCEPT !.at = "quit"]
    /\ evq' = evq

\* App.quit on the scheduler's thread
Quit ==
    /\ evq' = evq
    /\ \/ /\ app.at = "quit"
          /\ app' = [driver_stop(app) EXCEPT !.running = FALSE, !.at = "exit"]
       \/ /\ app.at = "exit"
          /\ app' = [app EXCEPT !.at = "exited",
                                !.steps = Append(app.steps, "exit")]

NextApp ==
    \/ Build /\ UNCHANGED <<coreVars, drvVars, wr, ux, kbm, inp, hit, geo, win>>
    \/ StartLoops /\ UNCHANGED <<coreVars, drvVars, wr, ux, kbm, inp, hit, geo, win>>
    \/ PutAppEvent /\ UNCHANGED <<coreVars, drvVars, wr, ux, kbm, inp, hit, geo, win>>
    \/ AppRunScheduled /\ UNCHANGED <<coreVars, drvVars, wr, ux, kbm, inp, hit, geo, win>>
    \/ InputTurn /\ UNCHANGED <<coreVars, drvVars, wr, ux, kbm, inp, hit, geo, win>>
    \/ RenderTurn /\ UNCHANGED <<coreVars, drvVars, wr, ux, kbm, inp, hit, geo, win>>
    \/ KeybindQuit /\ UNCHANGED <<coreVars, drvVars, wr, ux, kbm, inp, hit, geo, win>>
    \/ TaskEnds /\ UNCHANGED <<coreVars, drvVars, wr, ux, kbm, inp, hit, geo, win>>
    \/ WaitReturns /\ UNCHANGED <<coreVars, drvVars, wr, ux, kbm, inp, hit, geo, win>>
    \/ CancelTask /\ UNCHANGED <<coreVars, drvVars, wr, ux, kbm, inp, hit, geo, win>>
    \/ AwaitTask /\ UNCHANGED <<coreVars, drvVars, wr, ux, kbm, inp, hit, geo, win>>
    \/ Quit /\ UNCHANGED <<coreVars, drvVars, wr, ux, kbm, inp, hit, geo, win>>

(***************************************************************************)
(* The input thread of the Unix driver (termui/input/_unix_driver.py) and  *)
(* Driver.process_message (termui/_driver.py), which it calls for every    *)
(* event the parser makes of a chunk.  Button 0 is "no button".            *)
(***************************************************************************)
\* how many chunks the input thread reads
MaxChunks == 4

MouseButtons == 0..2

\* the events of one chunk: one mouse event or one key; "undecodable" is a
\* chunk of bytes that are no UTF-8
ChunkEvents ==
    [type : {"MouseDown", "MouseUp", "MouseMove"}, x : 1..2, button : MouseButtons]
        \cup {[type |-> "Key", x |-> 0, button |-> 0]}

\* Driver.__init__ and the input thread just started; sent: the messages
\* given to send_message; raised/logged: the chunks whose processing raised
\* and the log entries written for them
NewInput ==
    [alive |-> TRUE, down_buttons |-> <<>>, last_move_event |-> None,
     sent |-> <<>>, read |-> 0, message |-> None, raised |-> 0, logged |-> 0]

InitInput == inp = NewInput

\* list(dict.fromkeys(buttons).keys()): the first occurrences, in order
RECURSIVE Dedup(_)
Dedup(buttons) ==
    IF buttons = <<>> THEN <<>>
    ELSE IF Last(buttons) \in Range(Front(buttons)) THEN Dedup(Front(buttons))
    ELSE Append(Dedup(Front(buttons)), Last(buttons))

\* list.index(button) for a button of the list
FirstIndex(buttons, button) ==
    CHOOSE i \in 1..Len(buttons) :
        buttons[i] = button /\ \A j \in 1..(i - 1) : buttons[j] # button

\* list.remove(button): without the first occurrence
RemoveFirst(buttons, button) ==
    IF button \notin Range(buttons) THEN buttons
    ELSE SubSeq(buttons, 1, FirstIndex(buttons, button) - 1)
             \o SubSeq(buttons, FirstIndex(buttons, button) + 1, Len(buttons))

send_message(d, message) == [d EXCEPT !.sent = Append(d.sent, message)]

\* Driver.process_message: [driver, raised].  The MouseUp it builds for a
\* stale button gets the argument button twice, once by position and once
\* by name, which raises TypeError after the buttons were cleared
process_message_mouse(d, message) ==
    IF message.type = "MouseDown"
    THEN [driver |-> send_message(
                         IF message.button # 0
                         THEN [d EXCEPT !.down_buttons = Append(d.down_buttons, message.button)]
                         ELSE d, message),
          raised |-> FALSE]
    ELSE IF message.type = "MouseUp"
    THEN [driver |-> send_message(
                         IF message.button # 0
                         THEN [d EXCEPT !.down_buttons = RemoveFirst(d.down_buttons, message.button)]
                         ELSE d, message),
          raised |-> FALSE]
    ELSE IF message.type = "MouseMove"
    THEN IF d.down_buttons # <<>> /\ message.button = 0 /\ d.last_move_event # None
         THEN [driver |-> [d EXCEPT !.down_buttons = <<>>], raised |-> TRUE]
         ELSE [driver |-> send_message([d EXCEPT !.last_move_event = Some(message)],
                                       message),
               raised |-> FALSE]
    ELSE [driver |-> send_message(d, message), raised |-> FALSE]

\* _run_input_thread: an exception ends run_input_thread and is passed over
run_input_thread(d, r) ==
    IF r.raised
    THEN [r.driver EXCEPT !.alive = FALSE, !.raised = d.raised + 1]
    ELSE r.driver

\* the input thread reads a chunk, decodes it and processes its event
ReadChunk ==
    /\ inp.alive
    /\ inp.read < MaxChunks
    /\ \E message \in ChunkEvents :
          inp' = run_input_thread(
                     inp, process_message_mouse(
                              [inp EXCEPT !.read = inp.read + 1,
                                          !.message = Some(message)], message))

\* the chunk is no UTF-8: decode raises UnicodeDecodeError
ReadUndecodable ==
    /\ inp.alive
    /\ inp.read < MaxChunks
    /\ inp' = run_input_thread(
                  inp, [driver |-> [inp EXCEPT !.read = inp.read + 1,
                                               !.message = None],
                        raised |-> TRUE])

NextInput ==
    \/ ReadChunk /\ UNCHANGED <<coreVars, drvVars, evq, wr, ux, kbm, app, hit, geo, win>>
    \/ ReadUndecodable /\ UNCHANGED <<coreVars, drvVars, evq, wr, ux, kbm, app, hit, geo, win>>

(***************************************************************************)
(* Hit testing (termui/dom_tree.py get_widget_at_coordinate,               *)
(* termui/utils/geometry.py Region).  hit holds the class and the region   *)
(* of every node object and the last coordinate asked for with its answer. *)
(***************************************************************************)
\* DOMNode, and Widget with its subclasses Layout and Container
NodeClasses == {"DOMNode", "Widget", "Layout", "Container"}

\* the coordinates asked for
Points == {<<0, 0>>, <<1, 1>>, <<2, 2>>}

\* Region.contains
Region_contains(region, x, y) ==
    /\ region.x <= x /\ x < region.x + region.width
    /\ region.y <= y /\ y < region.y + region.height

\* the loop of DOMTree.get_node_list: the head of the queue, then the rest
\* of the queue with the head's children behind it
RECURSIVE BreadthFirst(_, _)
BreadthFirst(nd, queue) ==
    IF queue = <<>> THEN <<>>
    ELSE <<Head(queue)>> \o BreadthFirst(nd, Tail(queue) \o nd[Head(queue)].children)

\* DOMTree.get_node_list
get_node_list(t, nd) ==
    IF t.root = None THEN <<>> ELSE BreadthFirst(nd, <<t.root[1]>>)

\* isinstance(node, Widget)
IsWidget(h, node) == h.class[node] \in {"Widget", "Layout", "Container"}

\* the first node of the list that is a Widget whose region contains the point
RECURSIVE FirstNodeAt(_, _, _, _)
FirstNodeAt(h, list, x, y) ==
    IF list = <<>> THEN None
    ELSE IF IsWidget(h, Head(list)) /\ Region_contains(h.region[Head(list)], x, y)
    THEN Some(Head(list))
    ELSE FirstNodeAt(h, Tail(list), x, y)

\* the loop of get_widget_at_coordinate over the node list
RECURSIVE FirstWidgetAt(_, _, _, _)
FirstWidgetAt(h, list, x, y) ==
    IF list = <<>> THEN None
    ELSE IF /\ IsWidget(h, Head(list))
            /\ Region_contains(h.region[Head(list)], x, y)
            /\ h.class[Head(list)] # "Layout"
            /\ h.class[Head(list)] # "Container"
    THEN Some(Head(list))
    ELSE FirstWidgetAt(h, Tail(list), x, y)

\* DOMTree.get_node_at_coordinate
get_node_at_coordinate(t, nd, h, x, y) == FirstNodeAt(h, get_node_list(t, nd), x, y)

\* DOMTree.get_widget_at_coordinate
get_widget_at_coordinate(t, nd, h, x, y) ==
    FirstWidgetAt(h, get_node_list(t, nd), x, y)

NoQuery(h) == [h EXCEPT !.at = None, !.result = None]

IdleHit ==
    hit = [class |-> [n \in Nodes |-> "Widget"],
           region |-> [n \in Nodes |-> Region(0, 0, 2, 2)],
           at |-> None, result |-> None]

\* the node objects as the application built them: a layout or container,
\* a widget or plain node, and a widget with the smaller region
InitHit ==
    \E c1 \in {"Layout", "Container"}, c2 \in {"Widget", "DOMNode"} :
        hit = [class |-> [n \in Nodes |-> IF n = "n1" THEN c1
                                          ELSE IF n = "n2" THEN c2 ELSE "Widget"],
               region |-> [n \in Nodes |-> IF n = "n3" THEN Region(1, 1, 1, 1)
                                           ELSE Region(0, 0, 2, 2)],
               at |-> None, result |-> None]

\* tree.get_widget_at_coordinate(x, y)
GetWidgetAt ==
    /\ \E p \in Points :
          hit' = [hit EXCEPT !.at = Some(p),
                             !.result = get_widget_at_coordinate(tree, nodes, hit,
                                                                 p[1], p[2])]
    /\ UNCHANGED domVars

HitOthers == <<parserVars, listVars, rendVars, drvVars, evq, wr, ux, kbm, app, inp, geo, win>>

NextHit ==
    \/ SetRoot /\ hit' = NoQuery(hit) /\ UNCHANGED HitOthers
    \/ AddNode /\ hit' = NoQuery(hit) /\ UNCHANGED HitOthers
    \/ RemoveNode /\ hit' = NoQuery(hit) /\ UNCHANGED HitOthers
    \/ GetWidgetAt /\ UNCHANGED HitOthers

(***************************************************************************)
(* Geometry (termui/utils/geometry.py Region).  geo holds one Region       *)
(* object, the last call made on it, whether that call raised              *)
(* DimensionError, the object's fields before the call and the Region the  *)
(* call returned.                                                          *)
(***************************************************************************)
\* the largest coordinate and extent tried
MaxExtent == 1

\* the integers handed to Region and to its methods
Extents == -1..MaxExtent

\* Region.__post_init__: TRUE when it raises DimensionError
__post_init__(self) ==
    \/ self.x < 0 \/ self.y < 0
    \/ self.width < 0 \/ self.height < 0

\* no Region constructed yet
NewGeo == [region |-> None, op |-> "none", raised |-> FALSE,
           before |-> None, returned |-> None]

InitGeo == geo = NewGeo

\* what a method that has assigned the fields of self and then builds
\* Region(self.x, self.y, self.width, self.height) leaves behind
Rebuilt(g, op, self) ==
    [region |-> Some(self), op |-> op, raised |-> __post_init__(self),
     before |-> g.region,
     returned |-> IF __post_init__(self) THEN None ELSE Some(self)]

\* Region(x, y, width, height): the object exists only if __post_init__ returns
Construct(g, x, y, width, height) ==
    [region |-> IF __post_init__(Region(x, y, width, height))
                  THEN g.region ELSE Some(Region(x, y, width, height)),
     op |-> "Region",
     raised |-> __post_init__(Region(x, y, width, height)),
     before |-> g.region,
     returned |-> IF __post_init__(Region(x, y, width, height))
                    THEN None ELSE Some(Region(x, y, width, height))]

\* Region.move_relative
move_relative(g, dx, dy) ==
    Rebuilt(g, "move_relative",
            [g.region[1] EXCEPT !.x = g.region[1].x + dx,
                                !.y = g.region[1].y + dy])

\* Region.move_absolute
move_absolute(g, x, y) ==
    Rebuilt(g, "move_absolute", [g.region[1] EXCEPT !.x = x, !.y = y])

\* Region.update_dimensions
update_dimensions(g, new_width, new_height) ==
    Rebuilt(g, "update_dimensions",
            [g.region[1] EXCEPT !.width = new_width, !.height = new_height])

NewRegion ==
    \E x, y, width, height \in Extents :
        geo' = Construct(geo, x, y, width, height)

MoveRelative ==
    /\ geo.region # None
    /\ \E dx, dy \in Extents :
        /\ geo.region[1].x + dx \in Extents
        /\ geo.region[1].y + dy \in Extents
        /\ geo' = move_relative(geo, dx, dy)

MoveAbsolute ==
    /\ geo.region # None
    /\ \E x, y \in Extents : geo' = move_absolute(geo, x, y)

UpdateDimensions ==
    /\ geo.region # None
    /\ \E new_width, new_height \in Extents :
        geo' = update_dimensions(geo, new_width, new_height)

GeoOthers == <<coreVars, drvVars, evq, wr, ux, kbm, app, inp, hit, win>>

NextGeo ==
    \/ NewRegion /\ UNCHANGED GeoOthers
    \/ MoveRelative /\ UNCHANGED GeoOthers
    \/ MoveAbsolute /\ UNCHANGED GeoOthers
    \/ UpdateDimensions /\ UNCHANGED GeoOthers

(***************************************************************************)
(* The driver thread on Windows (termui/drivers/_driver.py Driver._run,    *)
(* start, stop and _put_event; termui/drivers/_windows_driver.py           *)
(* read_input).  win holds the statement _run is at, _running, the state   *)
(* of _loop, whether a call of _loop.stop is scheduled on it, and the      *)
(* events the parser has yielded in read_input, in order.                  *)
(***************************************************************************)
NewWindows ==
    [at |-> "idle", running |-> FALSE, loop |-> "none", stop_scheduled |-> FALSE,
     yielded |-> <<>>]

InitWindows == win = NewWindows

\* the events the parser yields to read_input
WindowsEvents(n) ==
    {[n |-> n, kind |-> "key", key |-> key] : key \in KeyStrings}
        \cup {[n |-> n, kind |-> "mouse"]}

\* self._loop and self._loop.is_running()
loop_is_running(w) == w.loop = "running"

\* Driver.start up to self._thread.start()
WindowsStart ==
    /\ ~win.running /\ win.at = "idle"
    /\ win' = [win EXCEPT !.running = TRUE, !.at = "_run"]
    /\ UNCHANGED <<evq, kbm>>

\* Driver._run: the loop is made and set, not run
WindowsRun ==
    /\ win.at = "_run"
    /\ win' = [win EXCEPT !.loop = "created", !.at = "read_input"]
    /\ UNCHANGED <<evq, kbm>>

\* one event of WindowsDriver.read_input's `while self._running` loop,
\* through _process_parser_events or _tick_parser to Driver._put_event
WindowsReadInput ==
    /\ win.at = "read_input" /\ win.running
    /\ evq.produced < MaxEvents
    /\ \E event \in WindowsEvents(evq.produced + 1) :
          \E r \in {IF loop_is_running(win) /\ event.kind = "key"
                    THEN handle_key_event(kbm, event, ReaderTid(1))
                    ELSE [kbm |-> kbm, triggered |-> FALSE]} :
             /\ kbm' = r.kbm
             /\ evq' = put_event(evq, event, loop_is_running(win), r.triggered)
             /\ win' = [win EXCEPT !.yielded = Append(@, event)]

\* Driver.stop called by a thread of the application, up to the join
WindowsStop ==
    /\ win.running
    /\ win' = [win EXCEPT !.running = FALSE,
                          !.stop_scheduled = (win.loop # "none")]
    /\ UNCHANGED <<evq, kbm>>

\* read_input returns once _running is False, and _run calls run_forever
WindowsReadReturns ==
    /\ win.at = "read_input" /\ ~win.running
    /\ win' = [win EXCEPT !.at = "run_forever", !.loop = "running"]
    /\ UNCHANGED <<evq, kbm>>

\* the loop runs the scheduled _loop.stop and run_forever returns
WindowsLoopStops ==
    /\ win.at = "run_forever" /\ win.stop_scheduled
    /\ win' = [win EXCEPT !.at = "done", !.loop = "stopped",
                          !.stop_scheduled = FALSE]
    /\ UNCHANGED <<evq, kbm>>

WindowsOthers == <<coreVars, drvVars, wr, ux, app, inp, hit, geo>>

NextWindows ==
    \/ WindowsStart /\ UNCHANGED WindowsOthers
    \/ WindowsRun /\ UNCHANGED WindowsOthers
    \/ WindowsReadInput /\ UNCHANGED WindowsOthers
    \/ WindowsStop /\ UNCHANGED WindowsOthers
    \/ WindowsReadReturns /\ UNCHANGED WindowsOthers
    \/ WindowsLoopStops /\ UNCHANGED WindowsOthers

IdleKeys == kbm = NewKeybindManager(<<DefaultKeybind>>)

IdleExt == IdleKeys /\ InitApp /\ InitInput /\ IdleHit /\ InitGeo /\ InitWindows

\* a renderer on the smallest terminal, nothing registered yet
IdleRenderer ==
    /\ termSize = <<1, 1>>
    /\ rend = NewRenderer(termSize)
    /\ screen = BlankFrame(1, 1)
    /\ rendOp = RendOp("none", FALSE, {})


(***************************************************************************)
(* The components do not share state: each specification runs one of them  *)
(* from its initial states with the others as constructed and untouched.   *)
(***************************************************************************)
IdleParser ==
    /\ input = <<>>
    /\ fed = 0
    /\ parser = NewParser
    /\ out = <<>>
    /\ lastOp = "none"
    /\ lastOut = <<>>
    /\ timedOut = FALSE
    /\ now = 0

IdleDom == InitDom

IdleList == InitList

IdleRender == IdleRenderer

IdleIo ==
    /\ InitDriver
    /\ InitEvents
    /\ InitWrites
    /\ ux = NewUnixDriver(TRUE, TRUE)
    /\ IdleExt

IdleCore == IdleParser /\ IdleDom /\ IdleList /\ IdleRender

InitSpecParser == InitParser /\ IdleDom /\ IdleList /\ IdleRender /\ IdleIo

SpecParser == InitSpecParser /\ [][NextParser]_vars

InitSpecDom == IdleParser /\ InitDom /\ IdleList /\ IdleRender /\ IdleIo

SpecDom == InitSpecDom /\ [][NextDom]_vars

SpecTree == InitSpecDom /\ [][NextTree]_vars

InitSpecList == IdleParser /\ IdleDom /\ InitList /\ IdleRender /\ IdleIo

SpecList == InitSpecList /\ [][NextList]_vars

InitSpecRender == IdleParser /\ IdleDom /\ IdleList /\ InitRender /\ IdleIo

SpecRender == InitSpecRender /\ [][NextRender]_vars

InitSpecRenderFail ==
    /\ IdleParser /\ IdleDom /\ IdleList /\ IdleIo
    /\ termSize = <<MaxWidth, MaxHeight>>
    /\ rend = NewRenderer(termSize)
    /\ screen = BlankFrame(termSize[1], termSize[2])
    /\ rendOp = RendOp("none", FALSE, {})

SpecRenderFail == InitSpecRenderFail /\ [][NextRenderFail]_vars

InitSpecNode == IdleParser /\ InitNode /\ IdleList /\ IdleRender /\ IdleIo

SpecNode == InitSpecNode /\ [][NextNode]_vars

InitSpecDriver ==
    /\ IdleCore
    /\ InitDriver
    /\ InitEvents
    /\ InitWrites
    /\ ux = NewUnixDriver(TRUE, TRUE)
    /\ IdleExt

SpecDriver == InitSpecDriver /\ [][NextDriver]_vars

SpecEvents == InitSpecDriver /\ [][NextEvents]_vars

SpecWrites == InitSpecDriver /\ [][NextWrites]_vars

InitSpecUnix ==
    /\ IdleCore
    /\ InitDriver
    /\ InitEvents
    /\ InitWrites
    /\ InitUnix
    /\ IdleExt

SpecUnix == InitSpecUnix /\ [][NextUnix]_vars

InitSpecKeys ==
    /\ IdleCore
    /\ InitDriver
    /\ InitEvents
    /\ InitWrites
    /\ ux = NewUnixDriver(TRUE, TRUE)
    /\ InitKeys
    /\ InitApp
    /\ InitInput
    /\ IdleHit
    /\ InitGeo
    /\ InitWindows

SpecKeys == InitSpecKeys /\ [][NextKeys]_vars

SpecApp == InitSpecDriver /\ [][NextApp]_vars

InitSpecHit ==
    /\ IdleParser /\ InitDom /\ IdleList /\ IdleRender
    /\ InitDriver
    /\ InitEvents
    /\ InitWrites
    /\ ux = NewUnixDriver(TRUE, TRUE)
    /\ IdleKeys /\ InitApp /\ InitInput
    /\ InitHit
    /\ InitGeo
    /\ InitWindows

SpecHit == InitSpecHit /\ [][NextHit]_vars

InitSpecResize ==
    /\ IdleCore
    /\ InitDriver
    /\ InitEvents
    /\ InitWrites
    /\ InitResize
    /\ IdleExt

SpecResize == InitSpecResize /\ [][NextResize]_vars

SpecInput == InitSpecDriver /\ [][NextInput]_vars

SpecGeo == InitSpecDriver /\ [][NextGeo]_vars

SpecWindows == InitSpecKeys /\ [][NextWindows]_vars

InitSpecFrame == IdleParser /\ IdleDom /\ IdleList /\ InitFrame /\ IdleIo

SpecFrame == InitSpecFrame /\ [][NextFrame]_vars

(***************************************************************************)
(* Properties of the parser (SpecParser).                                  *)
(***************************************************************************)
\* the events of one feed() call given the whole of the fed prefix
OneCall(prefix) == feed(NewParser, prefix, 0).toks

\* C1: as long as no tick() has delivered a timeout between chunks and the
\* stream has not ended, the events produced by feeding a prefix of the input
\* in chunks of any sizes (one character per call included) are exactly the
\* events of feeding that prefix in a single call.
C1_ChunkingIndependence ==
    (fed > 0 /\ ~timedOut /\ ~parser.eof) => out = OneCall(SubSeq(input, 1, fed))

\* an input of eight characters and four events fed to the end in more than
\* one call, events having come out of an earlier call
C1_Witness ==
    /\ input = <<"a", ESC, "[", "<", ESC, "[", "A", "b">>
    /\ fed = Len(input)
    /\ lastOp = "feed"
    /\ ~timedOut
    /\ lastOut # <<>>
    /\ Len(lastOut) < Len(out)

EscapeKey == Key(<<"escape">>, Some(<<ESC>>))

\* the deadline is armed exactly while an escape sequence is pending, and is
\* never later than one escape delay from now
DeadlineArmed ==
    ~parser.eof =>
        /\ (parser.timeout_time # None) <=> (parser.state = "sequence")
        /\ parser.timeout_time # None => parser.timeout_time[1] <= now + ESCAPE_DELAY

\* what one tick() does to a parser whose stream has not ended
TickStep ==
    (lastOp' = "tick" /\ ~parser.eof) =>
        /\ (parser.state = "sequence" /\ parser.sequence = <<ESC>>
            /\ now >= parser.timeout_time[1]) =>
               /\ lastOut' = <<EscapeKey>>
               /\ parser'.state = "ground"
               /\ parser'.timeout_time = None
        /\ (parser.state = "sequence" /\ now < parser.timeout_time[1]) =>
               /\ lastOut' = <<>>
               /\ parser' = parser
        /\ parser.state = "ground" =>
               /\ lastOut' = <<>>
               /\ parser' = parser

\* C2: with a lone ESC pending, the first tick() at or after the escape
\* timeout emits exactly one Key("escape") and returns the parser to the
\* ground state with no deadline; a tick() before the deadline, and every
\* tick() after the escape was emitted, emits nothing and changes nothing.
C2_LoneEscapeOnce == []DeadlineArmed /\ [][TickStep]_vars

\* a lone ESC was fed and a tick() after the escape delay emitted the key
C2_Witness ==
    /\ input = <<ESC>>
    /\ fed = 1
    /\ lastOp = "tick"
    /\ lastOut = <<EscapeKey>>
    /\ out = <<EscapeKey>>
    /\ parser.state = "ground"

\* C3: a well-formed SGR press ESC[<0;X;YM with X, Y >= 1, fed to the end
\* with no timeout in between, produces the one event MouseDown with x = X-1,
\* y = Y-1, button = 0 and no widget.
C3_SgrPressIsButtonZero ==
    \A x \in MouseCoords, y \in MouseCoords :
        (input = SgrMouse(0, x, y, "M") /\ fed = Len(input) /\ ~timedOut /\ ~parser.eof)
            => out = <<MouseEvent("MouseDown", Some(x - 1), Some(y - 1), Some(0), None)>>

(***************************************************************************)
(* Properties of the trees and the nodes.                                  *)
(***************************************************************************)
\* the step is an _append or _insert of a node that is not in the tree and
\* whose id is in the id table
InsertsKnownId ==
    /\ listOp'.op \in {"_append", "_insert"}
    /\ ~InNodesSet(ltree, listOp'.node)
    /\ ltree.nodes_by_id[ListNodeId(listOp'.node)] # None

\* C4: an _append or _insert of a new node whose id the tree already holds
\* raises the duplicate-id error and leaves the node list, the node set and
\* the id table exactly as they were.
C4_DuplicateIdLeavesTreeUnchanged ==
    [][InsertsKnownId => (listOp'.raised /\ ltree' = ltree)]_vars

\* the nodes reachable from the root by children links
Reachable == IF tree.root = None THEN {} ELSE Descendants(nodes, tree.root[1])

\* C5: no two distinct nodes reachable from the root have the same id, and
\* the id table gives, for the id of a reachable node, that node.
C5_IdsUnique ==
    /\ \A m \in Reachable, n \in Reachable : m # n => NodeId(m) # NodeId(n)
    /\ \A n \in Reachable :
          tree.nodes_by_id[NodeId(n)] # None => tree.nodes_by_id[NodeId(n)] = Some(n)

\* the places <<p, i>> where n is the i-th child of p
Places(n) ==
    {pi \in Nodes \X (1..MaxLinks) :
        pi[2] <= Len(nodes[pi[1]].children) /\ nodes[pi[1]].children[pi[2]] = n}

\* C6: every node is in the children list of at most one node, at most once,
\* and its parent reference is that node, or None when it is in no list.
C6_AtMostOneParent ==
    \A n \in Nodes :
        /\ Cardinality(Places(n)) <= 1
        /\ \A pi \in Places(n) : nodes[n].parent = Some(pi[1])
        /\ Places(n) = {} => nodes[n].parent = None

\* the fields of every node after a cascade that marks exactly the nodes of S
MarkedExactly(S) ==
    \A m \in Nodes :
        nodes'[m] = IF m \in S THEN [nodes[m] EXCEPT !.dirty = TRUE] ELSE nodes[m]

CascadeStep ==
    /\ domOp'.op = "mark_dirty_cascade_up" => MarkedExactly(Ancestors(nodes, domOp'.a))
    /\ domOp'.op = "mark_dirty_cascade_down" => MarkedExactly(Descendants(nodes, domOp'.a))

\* C7: mark_dirty_cascade_up on a node sets dirty on that node and on every
\* node up its chain of parents, mark_dirty_cascade_down sets it on the node
\* and on everything under it, and neither changes any other flag or link.
C7_CascadeMarksExactly == [][CascadeStep]_vars

\* n2 under n1 with the child n3: the cascade up from n2 marked n2 and n1 and
\* left n3 clean
C7_Witness ==
    /\ domOp.op = "mark_dirty_cascade_up"
    /\ domOp.a = "n2"
    /\ nodes["n2"].parent = Some("n1")
    /\ nodes["n3"].parent = Some("n2")
    /\ nodes["n1"].dirty
    /\ nodes["n2"].dirty
    /\ ~nodes["n3"].dirty

\* the step is remove_node(n) for a node n of the tree
RemovesNode(n) == domOp'.op = "remove_node" /\ domOp'.a = n /\ n \in tree.nodes

\* n is gone from the tree: from its parent's children, the node set and the
\* id and name tables
Detached(n) ==
    /\ nodes'[n].parent = None
    /\ nodes[n].parent # None => n \notin Range(nodes'[nodes[n].parent[1]].children)
    /\ n \notin tree'.nodes
    /\ tree'.nodes_by_id[NodeId(n)] # Some(n)
    /\ tree'.nodes_by_name[NameKey(n)] # Some(n)

\* every node but n keeps its parent, its place in the node set and its own
\* entries of the id and name tables, and n's descendants stay linked
OthersKept(n) ==
    /\ nodes'[n].children = nodes[n].children
    /\ \A m \in Nodes \ {n} :
          /\ nodes'[m].parent = nodes[m].parent
          /\ nodes[n].parent # Some(m) => nodes'[m].children = nodes[m].children
          /\ (m \in tree'.nodes) = (m \in tree.nodes)
          /\ tree.nodes_by_id[NodeId(m)] = Some(m) => tree'.nodes_by_id[NodeId(m)] = Some(m)
          /\ tree.nodes_by_name[NameKey(m)] = Some(m)
                => tree'.nodes_by_name[NameKey(m)] = Some(m)

\* C8: remove_node(n) for a node n of the tree takes n out of its parent's
\* children, clears n's parent reference and removes n's own entries from the
\* node set and the id and name tables, and leaves n's descendants and every
\* other node, with their table entries, as they were.
C8_RemoveNodeFrame ==
    [][\A n \in Nodes : RemovesNode(n) => (Detached(n) /\ OthersKept(n))]_vars

(***************************************************************************)
(* Properties of the renderer (SpecRender).                                *)
(***************************************************************************)
\* the step is a render_frame that directly follows a render_frame, the
\* terminal keeping its size
SecondPass ==
    /\ rendOp.op = "render_frame"
    /\ rendOp'.op = "render_frame"
    /\ ~rendOp'.resized

\* C9: a render_frame directly after a render_frame, with nothing changed in
\* between, writes no cell.
C9_SecondPassWritesNothing == [][SecondPass => rendOp'.writes = {}]_vars

\* the step is the first render_frame after the terminal changed size
PassAfterResize == rendOp'.op = "render_frame" /\ rendOp'.resized

\* both grids have the size of the terminal
GridsFit ==
    /\ DOMAIN rend'.frame_buffer.current_frame = Cells(termSize[1], termSize[2])
    /\ DOMAIN rend'.frame_buffer.previous_frame = Cells(termSize[1], termSize[2])

\* the cells whose displayed glyph is not the glyph of the new frame
Stale == {c \in DOMAIN screen : screen[c] # rend'.frame_buffer.current_frame[c]}

\* C10: the render pass after a change of the terminal size leaves both
\* grids with the new size and writes every cell whose displayed glyph
\* differs from the new frame, the cells that are blank now included.
C10_ResizeRepaintsChangedCells ==
    [][PassAfterResize => (GridsFit /\ Stale \subseteq rendOp'.writes)]_vars

\* the nodes of the render tree whose dirty flag is set when the step starts
DirtyNodes == {id \in RenderIds : rend.nodes[id] # None /\ rend.nodes[id][1].dirty}

\* how many times the last render pass passed the node to draw_content
BlitCount(id) == Cardinality({i \in 1..Len(rend'.blits) : rend'.blits[i] = id})

\* the step is a render pass
RenderPass == rendOp'.op = "render_frame"

\* C11: a node that is dirty when a render pass starts, and whose own
\* renderable updates it without an error, is blitted into the frame buffer
\* exactly once during the pass and is clean after it; a node that is clean
\* when the pass starts is not blitted.
C11_DirtyNodeBlittedOnce ==
    [][RenderPass =>
          \A id \in RenderIds :
              /\ (id \in DirtyNodes /\ id \notin rend.broken)
                    => (BlitCount(id) = 1 /\ ~rend'.nodes[id][1].dirty)
              /\ id \notin DirtyNodes => BlitCount(id) = 0]_vars

\* the step is a render pass in which the update of some renderable raises
FailingPass == RenderPass /\ UpdateRaises(rend)

\* the cells of the frame that the node's region covers
RegionCells(id) ==
    {c \in DOMAIN screen :
        /\ c[1] - NodeRegion(id).x \in 0..(NodeRegion(id).width - 1)
        /\ c[2] - NodeRegion(id).y \in 0..(NodeRegion(id).height - 1)}

\* C12: in a render pass in which the update of one renderable raises, every
\* other dirty node is still blitted, and the region of the failing
\* renderable keeps showing what it showed.
C12_FailureIsPerWidget ==
    [][FailingPass =>
          \A id \in DirtyNodes :
              IF Raises(rend, id)
              THEN \A c \in RegionCells(id) : screen'[c] = screen[c]
              ELSE BlitCount(id) = 1]_vars

\* C13: Driver.start creates and starts the writer thread first, then
\* switches the terminal mode, and only then starts the reader thread: no
\* reader thread exists and no input has been read before the writer
\* thread exists and the terminal has been set up.
C13_WriterThenModeThenReader ==
    (drv.readers # <<>> \/ tty.reads > 0)
        => (drv.writers # <<>> /\ drv.saved # "none")

\* C14: start and stop are idempotent, also across threads: no more reader
\* or writer threads are created than start() calls found the driver
\* stopped, and teardown runs at most once for each of those calls.
C14_StartStopIdempotent ==
    /\ Len(drv.readers) <= drv.starts
    /\ Len(drv.writers) <= drv.starts
    /\ drv.teardowns <= drv.starts

StopPcs == {"stop", "stop_set", "stop_teardown", "stop_join", "stop_wjoin"}

\* every reader and writer thread has ended and no queue holds a text
Quiescent(d) ==
    /\ \A i \in 1..Len(d.readers) : d.readers[i] = "done"
    /\ \A w \in 1..Len(d.writers) :
          ~d.writers[w].alive /\ d.writers[w].queue = <<>>

\* C15: when stop() returns to an application thread, the reader thread
\* and the writer thread have ended and every text passed to write()
\* before, the teardown sequences included, has been written.
C15_StopReturnsAfterThreadsEnd ==
    [][\A t \in AppThreads :
          (pc[t].at \in StopPcs /\ pc'[t].at = "returned")
              => Quiescent(drv')]_vars

ReportingModes == MouseModes \cup {"2004", "1004"}

\* C16: during the driver's stop, mouse reporting, bracketed paste and focus
\* reporting have all been switched off by the time the original terminal
\* attributes are restored.
C16_ReportingOffBeforeAttrsRestored ==
    [][(ux.attrs = "raw" /\ ux'.attrs = "cooked")
          => ux.modes \cap ReportingModes = {}]_vars

\* alternate screen, mouse tracking with pixel reporting, bracketed paste,
\* focus reporting, in-band resize, hidden cursor
DriverModes == MouseModes \cup {"1049", "1016", "2004", "1004", "2048", "25"}

\* C17: once stop_application_mode has run after start_application_mode,
\* whatever input arrived in between, every mode the driver enabled is
\* switched off again.
C17_EveryModeSwitchedBackOff ==
    ux.at = "stopped" => ux.modes \cap DriverModes = {}

\* C18: whenever the application exits, the terminal has its original
\* attributes and the show-cursor sequence has been written to it.
C18_ExitRestoresTerminal ==
    [][(~drv.exited /\ drv'.exited)
          => (tty'.attrs = "cooked" /\ "?25h" \in tty'.out)]_vars

\* C19: the input loop receives the events in the order in which the
\* reader enqueued them: what was delivered, followed by what waits in the
\* queue and what is still scheduled, is the sequence of enqueued events.
C19_EventsDeliveredInOrder ==
    evq.delivered \o evq.event_queue \o evq.scheduled = evq.enqueued

\* two events of different kinds were delivered and a key went to a keybind
C19_Witness ==
    /\ Len(evq.delivered) >= 2
    /\ evq.delivered[1].kind # evq.delivered[2].kind
    /\ evq.produced > Len(evq.enqueued)

\* the place of byte b in the order of the output calls
Issued(b) == CHOOSE i \in 1..Len(wr.issued) : wr.issued[i] = b

\* C20: the terminal receives the bytes in the order of the calls that
\* wrote them, and the bytes of one output (a render pass, a sequence of
\* mode switches) are not interleaved with those of another.
C20_BytesInOrderNeverInterleaved ==
    /\ \A i, j \in 1..Len(wr.term) :
          i < j => Issued(wr.term[i]) < Issued(wr.term[j])
    /\ \A i, j, k \in 1..Len(wr.term) :
          (i < j /\ j < k /\ wr.term[i].g = wr.term[k].g)
              => wr.term[j].g = wr.term[i].g

(***************************************************************************)
(* Keybinds and the thread their actions run on                            *)
(***************************************************************************)
\* C21: a Key event goes to the keybind manager first and a put on the
\* application's queue is scheduled for it only if no keybind action was
\* called for it: no event is both handled by a keybind and queued.
C21_BoundKeyNeverQueued ==
    \A i \in 1..Len(evq.enqueued) : \A j \in 1..Len(kbm.called) :
        evq.enqueued[i].n # kbm.called[j].n

\* one key fired a keybind and was kept back, another went to the queue
C21_Witness ==
    /\ kbm.called # <<>>
    /\ \E i \in 1..Len(evq.enqueued) : evq.enqueued[i].kind = "key"

\* the keybinds of the manager whose action is the given one
BoundTo(action) ==
    {i \in 1..Len(kbm.keybinds) : kbm.keybinds[i].action = action}

\* a step of handle_key_event that called an action called it for a keybind
\* whose keys are exactly the pressed keys; a step that added a key to the
\* pressed keys and called nothing found no keybind with exactly those keys
MatchStep ==
    /\ Len(kbm'.called) > Len(kbm.called)
          => \E i \in BoundTo(Last(kbm'.called).action) :
                 Range(SplitOn(kbm.keybinds[i].key, "+")) = Last(kbm'.called).pressed
    /\ (kbm'.called = kbm.called /\ kbm'.pressed_keys # kbm.pressed_keys)
          => \A i \in 1..Len(kbm.keybinds) :
                 Range(SplitOn(kbm.keybinds[i].key, "+"))
                     # kbm'.pressed_keys \cup kbm'.active_modifiers

\* C22: a keybind matches only when the set of pressed keys equals the set
\* of keys of its combination: "ctrl+c" matches {ctrl, c} and neither a
\* proper subset nor a proper superset of it.
C22_MatchIsSetEquality == [][MatchStep]_vars

\* "ctrl+c" was called for {ctrl, c}; later a and c were pressed with ctrl
\* still active and nothing matched {ctrl, a, c}
C22_Witness ==
    /\ \E j \in 1..Len(kbm.called) :
          /\ kbm.called[j].action = "copy"
          /\ kbm.called[j].pressed = {KeyCtrl, KeyC}
    /\ kbm.pressed_keys = {KeyA, KeyC}
    /\ kbm.active_modifiers = {KeyCtrl}

\* C23: no keybind action and no application callback runs on a thread of
\* the driver: all of them run on the thread of the scheduler.
C23_NoCallbackOnDriverThread ==
    \A j \in 1..Len(kbm.called) : kbm.called[j].thread = MainThread

(***************************************************************************)
(* The application's loops and its shutdown                                *)
(***************************************************************************)
\* every step a comes before every step b in the steps of the shutdown
Before(a, b) ==
    \A i, j \in 1..Len(app.steps) :
        (app.steps[i] = a /\ app.steps[j] = b) => i < j

\* C24: the shutdown cancels the remaining tasks, awaits their cancellation,
\* unmounts the active screen, stops the driver and only then ends the
\* process, each step after the one before it.
C24_ShutdownOrder ==
    /\ Before("cancel", "unmount") /\ Before("awaited", "unmount")
    /\ Before("cancel", "stop") /\ Before("awaited", "stop")
    /\ Before("unmount", "stop")
    /\ Before("stop", "exit")
    /\ (app.at = "exited" /\ app.current_screen)
          => \E i \in 1..Len(app.steps) : app.steps[i] = "unmount"

\* how many times the event numbered n was forwarded to the screen
TimesForwarded(n) ==
    Cardinality({i \in 1..Len(app.forwarded) : app.forwarded[i] = n})

\* C25: every event the input loop takes from the queue while a screen is
\* active is forwarded to that screen's handle_input_event exactly once,
\* whatever kind of event it is.
C25_EveryEventForwardedOnce ==
    \A i \in 1..Len(app.taken) :
        app.taken[i].screen => TimesForwarded(app.taken[i].n) = 1

(***************************************************************************)
(* The input thread and the mouse buttons it keeps track of                *)
(***************************************************************************)
\* C26: when processing a chunk of input raises, the exception is logged
\* and the reader goes on: the input thread stays alive and later input is
\* still made into events.
C26_ReaderSurvivesException ==
    inp.raised > 0 => (inp.alive /\ inp.logged = inp.raised)

\* the step processes a MouseMove without a button while buttons are
\* recorded as down
StaleMove ==
    /\ inp'.read = inp.read + 1
    /\ inp'.message # None
    /\ inp'.message[1].type = "MouseMove"
    /\ inp'.message[1].button = 0
    /\ inp.down_buttons # <<>>

\* the messages sent by the step: a MouseUp for each recorded button, once,
\* in the order they were pressed, and then the move
ReleasedThenMoved ==
    /\ Len(inp'.sent) = Len(inp.sent) + Len(Dedup(inp.down_buttons)) + 1
    /\ SubSeq(inp'.sent, 1, Len(inp.sent)) = inp.sent
    /\ \A i \in 1..Len(Dedup(inp.down_buttons)) :
          /\ inp'.sent[Len(inp.sent) + i].type = "MouseUp"
          /\ inp'.sent[Len(inp.sent) + i].button = Dedup(inp.down_buttons)[i]
    /\ Last(inp'.sent) = inp'.message[1]

\* C28: a MouseMove without a button that arrives while buttons are
\* recorded as down makes the driver send one MouseUp for each distinct
\* recorded button, in press order, before the MouseMove, and leaves no
\* button recorded as down.
C28_StaleButtonsReleasedOnMove ==
    [][StaleMove => (ReleasedThenMoved /\ inp'.down_buttons = <<>>)]_vars

(***************************************************************************)
(* Bracketed paste                                                         *)
(***************************************************************************)
\* the input opens with the paste start marker
PasteStarted ==
    /\ Len(input) >= Len(BRACKETED_PASTE_START)
    /\ SubSeq(input, 1, Len(BRACKETED_PASTE_START)) = BRACKETED_PASTE_START

\* the positions of the input at which an end marker is complete
PasteEnds ==
    {i \in (Len(BRACKETED_PASTE_START) + Len(BRACKETED_PASTE_END))..Len(input) :
        SubSeq(input, i - Len(BRACKETED_PASTE_END) + 1, i) = BRACKETED_PASTE_END}

\* the position at which the first end marker is complete
PasteEnd == CHOOSE i \in PasteEnds : \A j \in PasteEnds : i <= j

\* the characters between the start marker and the first end marker
PastedText ==
    SubSeq(input, Len(BRACKETED_PASTE_START) + 1,
           PasteEnd - Len(BRACKETED_PASTE_END))

\* C27: between the paste start marker and the matching end marker every
\* character goes to the paste buffer and none becomes a Key event; at the
\* end marker exactly one Paste event is emitted, whose text is all the
\* characters between the markers, in order, without the NUL characters.
C27_PasteCollectsEverything ==
    (PasteStarted /\ PasteEnds # {} /\ fed = PasteEnd)
        => out = <<Paste(StripNul(PastedText))>>

(***************************************************************************)
(* In-band window resize                                                   *)
(***************************************************************************)
\* the step sends a Resize event that comes from the given source
SendsResize(source) ==
    /\ Len(ux'.resizes) = Len(ux.resizes) + 1
    /\ Last(ux'.resizes) = source

\* C29: an in-band window resize report yields a Resize event and latches
\* "in-band resize supported"; the flag is never cleared once it is set, and
\* from then on a SIGWINCH signal produces no Resize event.
C29_ResizeReportLatches ==
    [][/\ SendsResize("report") => ux'.in_band_window_resize
       /\ ux.in_band_window_resize => ux'.in_band_window_resize
       /\ SendsResize("sigwinch")
             => (~ux.in_band_window_resize /\ "report" \notin Range(ux.resizes))]_vars

(***************************************************************************)
(* Hit testing                                                             *)
(***************************************************************************)
\* the places of the node list whose node is a widget, no layout and no
\* container, with a region that holds the coordinate asked for
Candidates ==
    {i \in 1..Len(get_node_list(tree, nodes)) :
        /\ hit.class[get_node_list(tree, nodes)[i]] = "Widget"
        /\ hit.at[1][1] - hit.region[get_node_list(tree, nodes)[i]].x
              \in 0..(hit.region[get_node_list(tree, nodes)[i]].width - 1)
        /\ hit.at[1][2] - hit.region[get_node_list(tree, nodes)[i]].y
              \in 0..(hit.region[get_node_list(tree, nodes)[i]].height - 1)}

\* C30: get_widget_at_coordinate(x, y) returns the first node in the order
\* of get_node_list that is a widget, neither a layout nor a container, and
\* whose region contains (x, y), and None exactly when there is no such node.
C30_FirstStandaloneWidgetAt ==
    hit.at # None =>
        /\ Candidates = {} => hit.result = None
        /\ Candidates # {} =>
              \E i \in Candidates :
                  /\ \A j \in Candidates : i <= j
                  /\ hit.result = Some(get_node_list(tree, nodes)[i])

\* the layout or container n1 is the root and holds (1, 1), and the answer
\* for (1, 1) is a widget further down the list
C30_Witness ==
    /\ hit.at = Some(<<1, 1>>)
    /\ tree.root = Some("n1")
    /\ hit.result # None
    /\ Len(get_node_list(tree, nodes)) = 3
    /\ hit.result = Some(get_node_list(tree, nodes)[3])

\* C31: every Region has x >= 0, y >= 0, width > 0 and height > 0, and a
\* call on a Region that fails with DimensionError leaves its fields as
\* they were before the call
C31_RegionWithinBounds ==
    /\ geo.region # None =>
        /\ geo.region[1].x >= 0 /\ geo.region[1].y >= 0
        /\ geo.region[1].width > 0 /\ geo.region[1].height > 0
    /\ geo.raised => geo.region = geo.before

\* the key event of one character on its own
StandaloneKey(c) == Key(<<_character_to_key(c)>>, Some(<<c>>))

\* one character is fed and it is an ESC, while a sequence is being accumulated
EscInsideEsc ==
    /\ parser.state = "sequence" /\ ~parser.eof
    /\ lastOp' = "feed" /\ fed' = fed + 1 /\ input[fed + 1] = ESC

\* an input with an ESC inside an unfinished sequence, and what it decodes to
EscInEscInput == <<"a", ESC, "[", "<", ESC, "[", "A", "b">>

EscInEscEvents ==
    <<StandaloneKey("a"), Key(<<"escape">>, Some(<<ESC>>)), StandaloneKey("["),
      StandaloneKey("<"), Key(<<"up">>, None), StandaloneKey("b")>>

\* C32: an ESC arriving while a sequence is accumulated makes the parser
\* emit Key escape and then one key event for each further character of the
\* partial sequence, in order, and restart accumulation with a buffer that
\* holds only the new ESC; what follows is decoded as a fresh sequence
C32_EscapeInsideEscape ==
    [][/\ EscInsideEsc =>
            /\ lastOut' = <<Key(<<"escape">>, Some(<<ESC>>))>> \o
                   [i \in 1..(Len(parser.sequence) - 1) |->
                       StandaloneKey(parser.sequence[i + 1])]
            /\ parser' = [parser EXCEPT !.sequence = <<ESC>>,
                                        !.timeout_time = Some(now + ESCAPE_DELAY)]
       /\ (input = EscInEscInput /\ fed' = Len(input) /\ ~timedOut'
             /\ ~parser'.eof) => out' = EscInEscEvents]_vars

C32_Witness ==
    /\ input = EscInEscInput /\ fed = Len(input) /\ ~timedOut
    /\ out = EscInEscEvents

\* one character other than ESC is fed while the buffer holds as many
\* characters as the threshold
BufferOverflows ==
    /\ parser.state = "sequence" /\ ~parser.eof
    /\ Len(parser.sequence) = MAX_SEQUENCE_SEARCH_THRESHOLD
    /\ lastOp' = "feed" /\ fed' = fed + 1 /\ input[fed + 1] # ESC

\* C33: the buffer of the sequence in progress never holds more than 33
\* characters: the character that makes it longer than 32 makes the parser
\* emit one key event for every character of the buffer, in input order
\* (the leading ESC under the name circumflex_accent), and return to Ground
C33_SequenceBufferBounded ==
    /\ [](Len(parser.sequence) <= MAX_SEQUENCE_SEARCH_THRESHOLD)
    /\ [][BufferOverflows =>
            /\ lastOut' = <<Key(<<"circumflex_accent">>, None)>> \o
                   [i \in 1..MAX_SEQUENCE_SEARCH_THRESHOLD |->
                       StandaloneKey(Append(parser.sequence, input[fed + 1])[i + 1])]
            /\ parser'.state = "ground" /\ parser'.sequence = <<>>]_vars

C33_Witness ==
    /\ input = UnknownSequence \o <<"a">> /\ fed = Len(input) /\ ~timedOut
    /\ Len(out) = Len(input) /\ parser.state = "ground"
    /\ out[Len(out)] = StandaloneKey("a")

C35_EOFReissuesEverything ==
    [][lastOp' = "eof" =>
          /\ parser'.state = "returned" /\ parser'.eof
          /\ parser.state = "sequence" =>
                \E k \in 0..Len(lastOut') :
                    SubSeq(lastOut', k + 1, Len(lastOut')) =
                        <<Key(<<"escape">>, Some(<<ESC>>))>> \o
                            [i \in 1..(Len(parser.sequence) - 1) |->
                                StandaloneKey(parser.sequence[i + 1])]
          /\ parser.paste_buffer # <<>> =>
                \E i \in 1..Len(lastOut') :
                    /\ lastOut'[i].type = "Paste"
                    /\ lastOut'[i].text = StripNul(parser.paste_buffer)]_vars

\* the cells of a frame buffer whose current and previous frames differ
Changed(fb) ==
    {c \in Cells(fb.width, fb.height) : fb.current_frame[c] # fb.previous_frame[c]}

\* the calls hold a cursor move to the cell, 1-indexed, row first, directly
\* followed by the write of the glyph
WritesCell(calls, c, glyph) ==
    \E i \in 1..(Len(calls) - 1) :
        /\ calls[i] = [to |-> "driver",
                       text |-> <<ESC, "[">> \o ToDigits(c[2] + 1) \o <<";">>
                                   \o ToDigits(c[1] + 1) \o <<"H">>]
        /\ calls[i + 1] = [to |-> "stdout", text |-> <<glyph>>]

\* C36: render writes a cell exactly when current_frame differs from
\* previous_frame there, after moving the cursor to that 1-indexed
\* coordinate, and writes no unchanged cell; when it has written,
\* previous_frame equals current_frame and the dirty set is empty
C36_RenderWritesExactlyChangedCells ==
    [][rendOp'.op = "render" =>
          /\ \A c \in Cells(rend.frame_buffer.width, rend.frame_buffer.height) :
                c \in Changed(rend.frame_buffer) <=>
                    \E glyph \in Glyphs \cup {Blank} :
                        WritesCell(rendOp'.calls, c, glyph)
          /\ \A c \in Changed(rend.frame_buffer) :
                WritesCell(rendOp'.calls, c, rend.frame_buffer.current_frame[c])
          /\ Len(rendOp'.calls) = 2 * Cardinality(Changed(rend.frame_buffer))
          /\ rendOp'.calls # <<>> =>
                /\ rend'.frame_buffer.previous_frame = rend'.frame_buffer.current_frame
                /\ rend'.frame_buffer.dirty_regions = {}]_vars

\* C39: whenever current_frame differs from previous_frame in some cell the
\* set of dirty regions is not empty, so that render() does not return early
\* with a drawn change unwritten
C39_ChangedMeansDirty ==
    Changed(rend.frame_buffer) # {} => rend.frame_buffer.dirty_regions # {}

\* the keys for which this step is handle_key_event of a Key event
DeliveredKeys ==
    {key \in KeyStrings :
        /\ kbm' # kbm
        /\ kbm' = handle_key_event(kbm, [n |-> evq.produced + 1, kind |-> "key",
                                         key |-> key], ReaderTid(1)).kbm}

\* the keybinds registered under exactly this key string
BoundUnder(key) == {i \in 1..Len(kbm.keybinds) : kbm.keybinds[i].key = key}

\* C37: with no key pressed, a Key event named by the key string of a
\* registered keybind, a '+'-joined combination such as "ctrl+c" included,
\* makes handle_key_event call that keybind's action once and return True,
\* so that the event is not queued
C37_KeyStringTriggersKeybind ==
    [][(kbm.pressed_keys = {} /\ kbm.active_modifiers = {}) =>
          \A key \in DeliveredKeys :
              BoundUnder(key) # {} =>
                  /\ Len(kbm'.called) = Len(kbm.called) + 1
                  /\ \E i \in BoundUnder(key) :
                        Last(kbm'.called).action = kbm.keybinds[i].action
                  /\ evq'.enqueued = evq.enqueued]_vars

\* C38: every event the parser yields in the driver's reader is either
\* consumed by a keybind or put on the event queue, whatever the timing of
\* the thread's start, of its loop starting to run and of the input
C38_NoEventDiscarded ==
    \A i \in 1..Len(win.yielded) :
        \/ \E j \in 1..Len(kbm.called) : kbm.called[j].n = win.yielded[i].n
        \/ \E j \in 1..Len(evq.enqueued) : evq.enqueued[j] = win.yielded[i]

\* a keybind is registered under this key string and it names a single key
SingleKeyBound(key) ==
    /\ Len(SplitOn(key, "+")) = 1
    /\ \E i \in 1..Len(kbm.keybinds) : kbm.keybinds[i].key = key

\* C40: a registered single-key keybind fires on every Key event for its
\* key, whatever keys that triggered no keybind were delivered before: such
\* an event is always consumed by the keybind and never goes on to the queue
C40_SingleKeyAlwaysFires ==
    \A i \in 1..Len(evq.enqueued) :
        evq.enqueued[i].kind = "key" => ~SingleKeyBound(evq.enqueued[i].key)

=============================================================================
